---- MODULE Spec2Model ----
(***************************************************************************)
(* Packet-exchange bridge of esp-wifi (src/src/wifi/mod.rs): the two       *)
(* bounded frame queues DATA_QUEUE_RX / DATA_QUEUE_TX, the driver callback *)
(* recv_cb, the smoltcp / embassy-net device (receive, transmit, token     *)
(* consume) and the drain routine send_data_if_needed, running on one core *)
(* where critical_section::with masks interrupts.                          *)
(***************************************************************************)
EXTENDS Integers, Sequences, FiniteSets, TLC

(* ---------------------------------------------------------------------- *)
(* Program constants                                                       *)
(* ---------------------------------------------------------------------- *)

\* data: [u8; 1536]
FRAME_CAP == 1536

\* a receive queue declared one frame larger: SimpleQueue<DataFrame, 4>
RxQueueOfFour == 3 + 1

\* SimpleQueue<DataFrame, 3> of DATA_QUEUE_RX
RX_QUEUE_SIZE == 3

\* SimpleQueue<DataFrame, 3> of DATA_QUEUE_TX
TX_QUEUE_SIZE == 3

(* ---------------------------------------------------------------------- *)
(* Bounds of the model                                                     *)
(* ---------------------------------------------------------------------- *)

\* task-side flows of control that may preempt one another (the polling task
\* and handlers or threads that use the device as well)
NumTasks == 4

\* invocations of recv_cb that find room on RX (one that finds RX full may
\* come at any time: it leaves no trace)
MaxRx == 4

\* frames the stack writes through TxToken::consume
MaxTx == 4

\* longest in-capacity frame the driver or the stack supplies
MaxLen == 1

\* tokens of each kind that may be outstanding at once
MaxTokens == 2

\* cooperative tasks of the executor that poll the device, each with its waker
NumWakers == 2

\* longest byte sequence tried on DataFrame with every content
MaxSliceLen == 4

Tasks == 1..NumTasks

\* the one task that polls the device in the examples' configuration
StackTasks == {1}

\* the wakers a poll may come with: cx.waker()
Wakers == 1..NumWakers

\* the interrupt context, as a holder of the critical section
ISR == NumTasks + 1

\* byte i of the buffer with sequence number id; never 0, so that a copied
\* byte differs from the zero fill of DataFrame::new
ByteOf(id, i) == ((id * 16 + i) % 255) + 1

\* the driver-owned buffer handed to recv_cb: from_raw_parts_mut(buffer, len)
DriverBuffer(id, len) == [i \in 1..len |-> ByteOf(id, i)]

\* the bytes the stack's writer closure puts into the slice it is given
WriterBytes(id, len) == [i \in 1..len |-> ByteOf(id + 8, i)]

(* ---------------------------------------------------------------------- *)
(* DataFrame                                                               *)
(* ---------------------------------------------------------------------- *)

\* A byte array or slice of n bytes is held as [n |-> n, lead |-> s]: it reads
\* s on its first Len(s) places and 0 on the others (Len(s) <= n), so that a
\* zero-initialised [u8; 1536] is not stored place by place.
Bytes(n, lead) == [n |-> n, lead |-> lead]

\* a[i], for i in 1..a.n
At(a, i) == IF i <= Len(a.lead) THEN a.lead[i] ELSE 0

\* the bytes of a, place by place
Expand(a) == [i \in 1..a.n |-> At(a, i)]

\* &a[..k], for k <= a.n
Prefix(a, k) ==
    Bytes(k, IF Len(a.lead) <= k THEN a.lead ELSE SubSeq(a.lead, 1, k))

\* a[..Len(src)].copy_from_slice(src), for Len(src) <= a.n
CopyFromSlice(a, src) ==
    Bytes(a.n, IF Len(src) >= Len(a.lead)
                 THEN src
                 ELSE src \o SubSeq(a.lead, Len(src) + 1, Len(a.lead)))

\* DataFrame::new: len 0, data [0u8; 1536]
DataFrame_new == [len |-> 0, data |-> Bytes(FRAME_CAP, << >>)]

\* slicing without the bounds check
SliceUnchecked(n) == TRUE

\* data.data[..n]: the index n must not exceed the array length
SliceInRange(n) == n <= FRAME_CAP

\* DataFrame::from_bytes (defined for SliceInRange(Len(bytes)); it panics
\* otherwise, which the callers model)
from_bytes(bytes) ==
    [len |-> Len(bytes), data |-> CopyFromSlice(DataFrame_new.data, bytes)]

\* &mut data.data[..]: the whole array
whole(frame) == Prefix(frame.data, frame.data.n)

\* a slice() that gives the whole array: &self.data[..]
SliceWholeArray(frame) == whole(frame)

\* DataFrame::slice: &self.data[..self.len]
slice(frame) == Prefix(frame.data, frame.len)

\* a frame with its sequence number and the length it was created with (both
\* are bookkeeping of the model, not fields of DataFrame)
Tagged(id, olen, frame) == [id |-> id, olen |-> olen, frame |-> frame]

NoFrame == Tagged(0, 0, DataFrame_new)

(* ---------------------------------------------------------------------- *)
(* SimpleQueue<T, N> (crate::compat::queue): the Bounded Frame Queue       *)
(* ---------------------------------------------------------------------- *)

SimpleQueue_new == << >>

is_empty(q) == Len(q) = 0

is_full(q, n) == Len(q) >= n

\* enqueue: appends and succeeds iff size < N
enqueue(q, n, e) ==
    IF Len(q) < n THEN [ok |-> TRUE, q |-> Append(q, e)]
                  ELSE [ok |-> FALSE, q |-> q]

\* dequeue: removes and returns the oldest element, or signals empty
dequeue(q) ==
    IF Len(q) = 0 THEN [some |-> FALSE, item |-> NoFrame, q |-> q]
                  ELSE [some |-> TRUE, item |-> Head(q), q |-> Tail(q)]

(* ---------------------------------------------------------------------- *)
(* State                                                                   *)
(* ---------------------------------------------------------------------- *)

VARIABLES
    DATA_QUEUE_RX,  \* the receive queue (driver -> stack)
    DATA_QUEUE_TX,  \* the transmit queue (stack -> driver)
    cs,             \* holders of the critical section, outermost first
    embassy,        \* whether the "embassy" feature is compiled in
    DUMP_PACKETS,   \* static DUMP_PACKETS: whether "dump_packets" is compiled in
    WAKER,          \* embassy_impl::WAKER: the registered waker, or 0
    notified,       \* wakers that were woken and have not been registered since
    isr,            \* the running recv_cb invocation
    pc,             \* per task: where it stands
    mode,           \* per task: the trait whose consume it runs ("sync"/"async")
    nested,         \* per task: TRUE while its TxToken runs inside an RxToken closure
    cur,            \* per task: the frame it holds outside the queues
    ret,            \* per task: the value the running consume is going to return
    rxTokens,       \* RxTokens handed out by receive() and not yet consumed
    txTokens,       \* TxTokens handed out and not yet consumed
    nextRx,         \* recv_cb invocations that went into the accept branch so far
    nextTx,         \* frames written by the stack so far
    accepted,       \* sequence numbers of the frames put on RX, in order
    handed,         \* sequence numbers of the frames RxToken closures got, in order
    sent,           \* sequence numbers of the esp_wifi_internal_tx calls, in order
    freed,          \* sequence numbers of the rx buffers released, in order
    drainCalls,     \* esp_wifi_internal_tx calls of the running send_data_if_needed
    fault           \* "none", or the panic that stopped the program

queues == <<DATA_QUEUE_RX, DATA_QUEUE_TX>>
wakeVars == <<WAKER, notified>>
taskVars == <<pc, mode, nested, cur, ret>>
tokenVars == <<rxTokens, txTokens>>
logVars == <<accepted, handed, sent, freed, drainCalls>>

vars == <<DATA_QUEUE_RX, DATA_QUEUE_TX, cs, embassy, DUMP_PACKETS, WAKER, notified, isr, pc,
          mode, nested, cur, ret, rxTokens, txTokens, nextRx, nextTx, accepted,
          handed, sent, freed, drainCalls, fault>>

\* a length that holds an Ethernet header, tried where packets are dumped
DumpLens == IF DUMP_PACKETS THEN {14} ELSE {}

\* lengths the driver passes to recv_cb (len: u16), one of them over capacity
RxLens == (1..MaxLen) \cup {FRAME_CAP + 1} \cup DumpLens

\* lengths the stack passes to TxToken::consume (len: usize)
TxLens == (1..MaxLen) \cup {FRAME_CAP + 1} \cup DumpLens

\* whether dump_packet_info(buffer) panics: with DUMP_PACKETS on it reads
\* ef.src_addr(), ef.dst_addr() and ef.ethertype() of
\* EthernetFrame::new_unchecked(buffer), which index buffer[6..12],
\* buffer[0..6] and buffer[12..14]. (The IPv4, ARP, TCP and UDP headers it
\* reads after that for these ethertypes are left out here.)
DumpPanics(buffer) == DUMP_PACKETS /\ buffer.n < 14

\* no recv_cb invocation is running
IsrIdle == [pc |-> "idle", id |-> 0, len |-> 0, size |-> 0,
            appended |-> FALSE, status |-> 0]

\* the statics after construction, but for DUMP_PACKETS; whether embassy is
\* compiled in is fixed at build time
InitStatics ==
    /\ DATA_QUEUE_RX = SimpleQueue_new
    /\ DATA_QUEUE_TX = SimpleQueue_new
    /\ cs = << >>
    /\ embassy \in BOOLEAN
    /\ WAKER = 0
    /\ notified = {}
    /\ isr = IsrIdle
    /\ pc = [t \in Tasks |-> "idle"]
    /\ mode = [t \in Tasks |-> "sync"]
    /\ nested = [t \in Tasks |-> FALSE]
    /\ cur = [t \in Tasks |-> NoFrame]
    /\ ret = [t \in Tasks |-> "none"]
    /\ rxTokens = 0
    /\ txTokens = 0
    /\ nextRx = 0
    /\ nextTx = 0
    /\ accepted = << >>
    /\ handed = << >>
    /\ sent = << >>
    /\ freed = << >>
    /\ drainCalls = 0
    /\ fault = "none"

\* the default build: static DUMP_PACKETS: bool = false
Init == InitStatics /\ DUMP_PACKETS = FALSE

\* the build with the "dump_packets" feature: static DUMP_PACKETS: bool = true
InitDump == InitStatics /\ DUMP_PACKETS = TRUE

(* ---------------------------------------------------------------------- *)
(* critical_section::with and AtomicWaker                                  *)
(* ---------------------------------------------------------------------- *)

\* interrupts are enabled: nobody is inside critical_section::with
CsFree == cs = << >>

\* entering critical_section::with in context c
CsAcquire(c) == Append(cs, c)

\* leaving the innermost critical_section::with
CsRelease == SubSeq(cs, 1, Len(cs) - 1)

CsHeldBy(c) == cs # << >> /\ cs[1] = c

\* a wake() that reaches nobody
WakeSilent == notified

\* AtomicWaker::wake: takes the registered waker out of the cell and wakes it
WakeNotified == IF WAKER = 0 THEN notified ELSE notified \cup {WAKER}

\* a cell that keeps the waker it has and ignores a later one
RegisterKeepsFirst(w) ==
    /\ WAKER' = IF WAKER = 0 THEN w ELSE WAKER
    /\ notified' = notified \ {w}

\* a poll that consults the queues without having left its waker in the cell
RegisterForgets(w) ==
    /\ WAKER' = WAKER
    /\ notified' = notified \ {w}

\* AtomicWaker::register: the cell now holds the waker w only
Register(w) ==
    /\ WAKER' = w
    /\ notified' = notified \ {w}

(* ---------------------------------------------------------------------- *)
(* recv_cb (interrupt context)                                             *)
(* ---------------------------------------------------------------------- *)

\* the driver calls recv_cb(buffer, len, eb); interrupts must be enabled.
\* recv_cb enters critical_section::with. isr.size keeps the number of frames
\* RX holds at the call
RecvCbEnterFor(lens) ==
    /\ fault = "none"
    /\ isr.pc = "idle"
    /\ CsFree
    /\ nextRx < MaxRx \/ is_full(DATA_QUEUE_RX, RX_QUEUE_SIZE)
    /\ \E len \in lens :
         isr' = [pc |-> "body", id |-> nextRx + 1, len |-> len,
                 size |-> Len(DATA_QUEUE_RX),
                 appended |-> FALSE, status |-> 0]
    /\ cs' = CsAcquire(ISR)
    /\ UNCHANGED <<queues, embassy, DUMP_PACKETS, wakeVars, taskVars, tokenVars, nextRx,
                   nextTx, logVars, fault>>

\* the driver calls recv_cb with any of the lengths tried
RecvCbEnter == RecvCbEnterFor(RxLens)

\* the frame recv_cb puts on RX: DataFrame::from_bytes(src)
RecvCbPacket ==
    Tagged(isr.id, isr.len, from_bytes(DriverBuffer(isr.id, isr.len)))

\* recv_cb without the is_full test: it goes into the accept branch always
RecvCbTakesAlways(queue) == TRUE

\* recv_cb that leaves one place of the queue unused
RecvCbTakesBelow(queue) == Len(queue) < RX_QUEUE_SIZE - 1

\* whether recv_cb takes the frame: if !queue.is_full()
RecvCbTakes(queue) == ~is_full(queue, RX_QUEUE_SIZE)

\* recv_cb that puts the new frame at the head of the queue
RecvCbEnqueueFront(queue, packet) ==
    IF Len(queue) < RX_QUEUE_SIZE THEN <<packet>> \o queue ELSE queue

\* queue.enqueue(packet); the result is not looked at
RecvCbEnqueue(queue, packet) == enqueue(queue, RX_QUEUE_SIZE, packet).q

\* recv_cb that ends both branches with 0
RecvCbStatusZero(taken) == 0

\* the status recv_cb returns: 0 after the enqueue, 1 in the else branch
RecvCbStatus(taken) == IF taken THEN 0 ELSE 1

\* if !queue.is_full() { from_bytes; enqueue; ... } else { 1 }
\* a recv_cb that hands the buffer back on the reject path too
RecvCbFreesOnReject == "free_rx_buffer"

\* where recv_cb goes when RX is full: `else { 1 }`, nothing is released
RecvCbAfterReject == "ret"

RecvCbBody ==
    /\ fault = "none"
    /\ isr.pc = "body"
    /\ IF RecvCbTakes(DATA_QUEUE_RX)
         THEN IF SliceInRange(isr.len)
                THEN /\ DATA_QUEUE_RX' =
                          RecvCbEnqueue(DATA_QUEUE_RX, RecvCbPacket)
                     /\ isr' = [isr EXCEPT !.pc = "free_rx_buffer",
                                  !.appended = (DATA_QUEUE_RX' =
                                      Append(DATA_QUEUE_RX, RecvCbPacket)),
                                  !.status = RecvCbStatus(TRUE)]
                     /\ accepted' = IF DATA_QUEUE_RX' # DATA_QUEUE_RX
                                      THEN Append(accepted, isr.id)
                                      ELSE accepted
                     /\ nextRx' = nextRx + 1
                     /\ fault' = fault
                ELSE /\ fault' = "recv_cb: range end index out of range"
                     /\ UNCHANGED <<DATA_QUEUE_RX, isr, accepted, nextRx>>
         ELSE /\ isr' = [isr EXCEPT !.pc = RecvCbAfterReject,
                                      !.status = RecvCbStatus(FALSE)]
              /\ UNCHANGED <<DATA_QUEUE_RX, fault, accepted, nextRx>>
    /\ UNCHANGED <<DATA_QUEUE_TX, cs, embassy, DUMP_PACKETS, wakeVars, taskVars, tokenVars,
                   nextTx, handed, sent, freed, drainCalls>>

\* a recv_cb without the wake() call
RecvCbSkipsWake == "ret"

\* what follows the release in the accept branch: WAKER.wake() where the
\* embassy feature is on, the status otherwise
RecvCbAfterFree == IF embassy THEN "wake" ELSE "ret"

\* esp_wifi_internal_free_rx_buffer(eb): a call into the driver
RecvCbFreeRxBuffer ==
    /\ fault = "none"
    /\ isr.pc = "free_rx_buffer"
    /\ freed' = Append(freed, isr.id)
    /\ isr' = [isr EXCEPT !.pc = RecvCbAfterFree]
    /\ UNCHANGED <<queues, cs, embassy, DUMP_PACKETS, wakeVars, taskVars, tokenVars, nextRx,
                   nextTx, accepted, handed, sent, drainCalls, fault>>

\* #[cfg(feature = "embassy")] embassy_impl::WAKER.wake()
RecvCbWake ==
    /\ fault = "none"
    /\ isr.pc = "wake"
    /\ notified' = WakeNotified
    /\ WAKER' = 0
    /\ isr' = [isr EXCEPT !.pc = "ret"]
    /\ UNCHANGED <<queues, cs, embassy, DUMP_PACKETS, taskVars, tokenVars, nextRx, nextTx,
                   logVars, fault>>

\* recv_cb leaves critical_section::with and returns its status to the driver
RecvCbExit ==
    /\ fault = "none"
    /\ isr.pc = "ret"
    /\ cs' = CsRelease
    /\ isr' = IsrIdle
    /\ UNCHANGED <<queues, embassy, DUMP_PACKETS, wakeVars, taskVars, tokenVars, nextRx,
                   nextTx, logVars, fault>>

(* ---------------------------------------------------------------------- *)
(* Task context: scheduling                                                *)
(* ---------------------------------------------------------------------- *)

\* The flows of control share one core and are ordered by priority: flow t + 1
\* runs only as a preemption of flow t, and flow t goes on when every flow
\* above it has returned. recv_cb, the interrupt handler, is above them all.

\* a transmit-done callback that takes the oldest frame off TX on a failure
TxDoneCbDropsOnFailure(txq, tx_status) ==
    IF tx_status \/ txq = << >> THEN txq ELSE Tail(txq)

\* TX after esp_wifi_tx_done_cb(_ifidx, _data, _data_len, _tx_status): the
\* callback writes a debug line and uses none of its arguments
TxDoneCbQueue(txq, tx_status) == txq

\* the driver calls esp_wifi_tx_done_cb for a frame it was given
TxDoneCbEnter ==
    /\ fault = "none"
    /\ isr.pc = "idle"
    /\ CsFree
    /\ sent # << >>
    /\ isr' = [IsrIdle EXCEPT !.pc = "tx_done"]
    /\ UNCHANGED <<queues, cs, embassy, DUMP_PACKETS, wakeVars, taskVars, tokenVars, nextRx,
                   nextTx, logVars, fault>>

\* debug!("esp_wifi_tx_done_cb") and the return
TxDoneCbExit ==
    /\ fault = "none"
    /\ isr.pc = "tx_done"
    /\ \E tx_status \in BOOLEAN :
         DATA_QUEUE_TX' = TxDoneCbQueue(DATA_QUEUE_TX, tx_status)
    /\ isr' = IsrIdle
    /\ UNCHANGED <<DATA_QUEUE_RX, cs, embassy, DUMP_PACKETS, wakeVars, taskVars, tokenVars,
                   nextRx, nextTx, logVars, fault>>

\* flow t may take a step: the program has not panicked, no interrupt handler
\* and no flow above t is running, and nobody else has interrupts masked
Runnable(t) ==
    /\ fault = "none"
    /\ isr.pc = "idle"
    /\ \A u \in Tasks : u > t => pc[u] = "idle"
    /\ CsFree \/ CsHeldBy(t)

\* flow t may begin an operation: it is the polling task, or it preempts the
\* flow below it in the middle of an operation
Starts(t) ==
    /\ Runnable(t)
    /\ pc[t] = "idle"
    /\ t > 1 => pc[t - 1] # "idle"

(* ---------------------------------------------------------------------- *)
(* WifiDevice::receive / transmit, smoltcp::phy::Device                    *)
(* ---------------------------------------------------------------------- *)

\* receive() that borrows the queue with interrupts enabled
ReceiveNoCs(t) == cs

\* the critical section receive() consults the queue in:
\* critical_section::with(|cs| { DATA_QUEUE_RX.borrow_ref_mut(cs) .. })
ReceiveCs(t) == CsAcquire(t)

\* receive() enters critical_section::with
ReceiveEnter(t) ==
    /\ Starts(t)
    /\ rxTokens < MaxTokens /\ txTokens < MaxTokens
    /\ cs' = ReceiveCs(t)
    /\ pc' = [pc EXCEPT ![t] = "receive"]
    /\ UNCHANGED <<queues, embassy, DUMP_PACKETS, wakeVars, isr, mode, nested, cur, ret,
                   tokenVars, nextRx, nextTx, logVars, fault>>

\* receive() that hands out a pair without looking at the queue
ReceiveGivesAlways(rxq) == TRUE

\* if !queue.is_empty() { Some((RxToken, TxToken)) } else { None }
ReceiveGives(rxq) == ~is_empty(rxq)

\* the body of receive(); its critical section ends and it returns
ReceiveBody(t) ==
    /\ Runnable(t)
    /\ pc[t] = "receive"
    /\ IF ReceiveGives(DATA_QUEUE_RX)
         THEN /\ rxTokens' = rxTokens + 1
              /\ txTokens' = txTokens + 1
         ELSE UNCHANGED tokenVars
    /\ cs' = CsRelease
    /\ pc' = [pc EXCEPT ![t] = "idle"]
    /\ UNCHANGED <<queues, embassy, DUMP_PACKETS, wakeVars, isr, mode, nested, cur, ret,
                   nextRx, nextTx, logVars, fault>>

\* transmit() that refuses when TX is full, as the embassy variant does
TransmitGivesIfRoom(txq) == ~is_full(txq, TX_QUEUE_SIZE)

\* whether transmit() gives a token: Some(WifiTxToken::default()), no queue
\* consulted
TransmitGives(txq) == TRUE

\* transmit()
Transmit(t) ==
    /\ Starts(t)
    /\ txTokens < MaxTokens
    /\ txTokens' = IF TransmitGives(DATA_QUEUE_TX)
                     THEN txTokens + 1 ELSE txTokens
    /\ UNCHANGED <<queues, cs, embassy, DUMP_PACKETS, wakeVars, isr, taskVars, rxTokens,
                   nextRx, nextTx, logVars, fault>>

\* the trait implementations compiled in: smoltcp's, and embassy-net's too
\* where the embassy feature is on
Modes == IF embassy THEN {"sync", "async"} ELSE {"sync"}

\* a capabilities() that reports the free places of TX as the burst size
CapabilitiesByRoom ==
    [max_transmission_unit |-> 1514,
     max_burst_size |-> TX_QUEUE_SIZE - Len(DATA_QUEUE_TX)]

\* smoltcp Device::capabilities: DeviceCapabilities::default() with
\* max_transmission_unit = 1514 and max_burst_size = Some(1)
capabilities == [max_transmission_unit |-> 1514, max_burst_size |-> 1]

\* embassy_impl Device::capabilities: the same two assignments
embassy_capabilities == [max_transmission_unit |-> 1514, max_burst_size |-> 1]

\* capabilities(&self) of the trait m is called and has computed its result
CapabilitiesCall(t) ==
    /\ Starts(t)
    /\ \E m \in Modes :
         ret' = [ret EXCEPT ![t] = IF m = "sync" THEN capabilities
                                               ELSE embassy_capabilities]
    /\ pc' = [pc EXCEPT ![t] = "capabilities"]
    /\ UNCHANGED <<queues, cs, embassy, DUMP_PACKETS, wakeVars, isr, mode, nested, cur,
                   tokenVars, nextRx, nextTx, logVars, fault>>

\* capabilities() returns caps to its caller
CapabilitiesReturn(t) ==
    /\ Runnable(t)
    /\ pc[t] = "capabilities"
    /\ ret' = [ret EXCEPT ![t] = "none"]
    /\ pc' = [pc EXCEPT ![t] = "idle"]
    /\ UNCHANGED <<queues, cs, embassy, DUMP_PACKETS, wakeVars, isr, mode, nested, cur,
                   tokenVars, nextRx, nextTx, logVars, fault>>

(* ---------------------------------------------------------------------- *)
(* embassy_impl: Device::receive / transmit                                *)
(* ---------------------------------------------------------------------- *)

\* receive(cx) of a poll that comes with the waker w: WAKER.register(cx.waker()),
\* before the queues are consulted
AsyncReceiveRegister(t, w) ==
    /\ Starts(t)
    /\ embassy
    /\ rxTokens < MaxTokens /\ txTokens < MaxTokens
    /\ Register(w)
    /\ pc' = [pc EXCEPT ![t] = "a_receive_registered"]
    /\ UNCHANGED <<queues, cs, embassy, DUMP_PACKETS, isr, mode, nested, cur, ret, tokenVars,
                   nextRx, nextTx, logVars, fault>>

AsyncReceiveEnter(t) ==
    /\ Runnable(t)
    /\ pc[t] = "a_receive_registered"
    /\ cs' = CsAcquire(t)
    /\ pc' = [pc EXCEPT ![t] = "a_receive"]
    /\ UNCHANGED <<queues, embassy, DUMP_PACKETS, wakeVars, isr, mode, nested, cur, ret,
                   tokenVars, nextRx, nextTx, logVars, fault>>

\* a receive(cx) that looks at RX only, as the smoltcp receive() does
AsyncReceiveGivesOnRx(rxq, txq) == ~is_empty(rxq)

\* if !rx.is_empty() && !tx.is_full() { Some(..) } else { None }
AsyncReceiveGives(rxq, txq) == ~is_empty(rxq) /\ ~is_full(txq, TX_QUEUE_SIZE)

\* the body of receive(cx); onNone is where the caller stands after a None
AsyncReceivePoll(t, onNone) ==
    /\ Runnable(t)
    /\ pc[t] = "a_receive"
    /\ IF AsyncReceiveGives(DATA_QUEUE_RX, DATA_QUEUE_TX)
         THEN /\ rxTokens' = rxTokens + 1
              /\ txTokens' = txTokens + 1
              /\ pc' = [pc EXCEPT ![t] = "idle"]
         ELSE /\ UNCHANGED tokenVars
              /\ pc' = [pc EXCEPT ![t] = onNone]
    /\ cs' = CsRelease
    /\ UNCHANGED <<queues, embassy, DUMP_PACKETS, wakeVars, isr, mode, nested, cur, ret,
                   nextRx, nextTx, logVars, fault>>

\* receive(cx) of a caller that may poll again at any time
AsyncReceiveBody(t) == AsyncReceivePoll(t, "idle")

AsyncTransmitRegister(t, w) ==
    /\ Starts(t)
    /\ embassy
    /\ txTokens < MaxTokens
    /\ Register(w)
    /\ pc' = [pc EXCEPT ![t] = "a_transmit_registered"]
    /\ UNCHANGED <<queues, cs, embassy, DUMP_PACKETS, isr, mode, nested, cur, ret, tokenVars,
                   nextRx, nextTx, logVars, fault>>

AsyncTransmitEnter(t) ==
    /\ Runnable(t)
    /\ pc[t] = "a_transmit_registered"
    /\ cs' = CsAcquire(t)
    /\ pc' = [pc EXCEPT ![t] = "a_transmit"]
    /\ UNCHANGED <<queues, embassy, DUMP_PACKETS, wakeVars, isr, mode, nested, cur, ret,
                   tokenVars, nextRx, nextTx, logVars, fault>>

\* an embassy transmit() that hands out a token without looking at TX
AsyncTransmitGivesAlways(txq) == TRUE

\* if !tx.is_full() { Some(WifiTxToken {}) } else { None }
AsyncTransmitGives(txq) == ~is_full(txq, TX_QUEUE_SIZE)

AsyncTransmitBody(t) ==
    /\ Runnable(t)
    /\ pc[t] = "a_transmit"
    /\ txTokens' = IF AsyncTransmitGives(DATA_QUEUE_TX)
                     THEN txTokens + 1 ELSE txTokens
    /\ cs' = CsRelease
    /\ pc' = [pc EXCEPT ![t] = "idle"]
    /\ UNCHANGED <<queues, embassy, DUMP_PACKETS, wakeVars, isr, mode, nested, cur, ret,
                   rxTokens, nextRx, nextTx, logVars, fault>>

(* ---------------------------------------------------------------------- *)
(* WifiRxToken::consume (smoltcp RxToken and embassy_impl RxToken)         *)
(* ---------------------------------------------------------------------- *)

\* consume(self, ..) enters critical_section::with; the token is used up
RxConsumeEnter(t) ==
    /\ Starts(t)
    /\ rxTokens > 0
    /\ rxTokens' = rxTokens - 1
    /\ \E m \in Modes : mode' = [mode EXCEPT ![t] = m]
    /\ cs' = CsAcquire(t)
    /\ pc' = [pc EXCEPT ![t] = "rx_consume"]
    /\ UNCHANGED <<queues, embassy, DUMP_PACKETS, wakeVars, isr, nested, cur, ret, txTokens,
                   nextRx, nextTx, logVars, fault>>

\* what consume does when queue.dequeue() gives None:
\* smoltcp: Err(smoltcp::Error::Exhausted); embassy: panic!("unreachable probs")
RxConsumeOnEmpty(m) == IF m = "sync" THEN "Exhausted" ELSE "panic"

\* if let Some(mut data) = queue.dequeue() { .. } else { .. }
RxConsumeDequeue(t) ==
    /\ Runnable(t)
    /\ pc[t] = "rx_consume"
    /\ LET d == dequeue(DATA_QUEUE_RX) IN
         /\ DATA_QUEUE_RX' = d.q
         /\ IF d.some
              THEN IF DumpPanics(slice(d.item.frame))
                     THEN /\ fault' = "dump_packet_info: index out of range"
                          /\ UNCHANGED <<pc, cur, ret>>
                     ELSE /\ cur' = [cur EXCEPT ![t] = d.item]
                          /\ pc' = [pc EXCEPT ![t] = "rx_closure"]
                          /\ UNCHANGED <<ret, fault>>
              ELSE /\ IF RxConsumeOnEmpty(mode[t]) = "panic"
                        THEN /\ fault' = "unreachable probs"
                             /\ UNCHANGED <<pc, ret>>
                        ELSE /\ pc' = [pc EXCEPT ![t] = "rx_exit"]
                             /\ ret' = [ret EXCEPT
                                          ![t] = RxConsumeOnEmpty(mode[t])]
                             /\ fault' = fault
                   /\ cur' = cur
    /\ UNCHANGED <<DATA_QUEUE_TX, cs, embassy, DUMP_PACKETS, wakeVars, isr, mode, nested,
                   tokenVars, nextRx, nextTx, logVars>>

\* the slice the closure is called with: f(&mut data.data[..])
RxClosureSlice(frame) == whole(frame)

\* what the closure f may return: a value, or (smoltcp::Result) an error
ClosureResults == {"Ok", "Err"}

\* a consume that puts the frame back at the head of RX when the closure fails
RxPutsBackOnErr(rxq, frame, result) ==
    IF result = "Err" THEN <<frame>> \o rxq ELSE rxq

\* RX after f(..) returned result for the dequeued frame: consume returns the
\* result and data goes out of scope
RxAfterClosure(rxq, frame, result) == rxq

\* the closure, running on RxClosureSlice(cur[t].frame), returns
RxClosurePlain(t) ==
    /\ Runnable(t)
    /\ pc[t] = "rx_closure"
    /\ \E result \in ClosureResults :
         /\ ret' = [ret EXCEPT ![t] = result]
         /\ DATA_QUEUE_RX' = RxAfterClosure(DATA_QUEUE_RX, cur[t], result)
    /\ handed' = Append(handed, cur[t].id)
    /\ cur' = [cur EXCEPT ![t] = NoFrame]
    /\ pc' = [pc EXCEPT ![t] = "rx_exit"]
    /\ UNCHANGED <<DATA_QUEUE_TX, cs, embassy, DUMP_PACKETS, wakeVars, isr, mode, nested,
                   tokenVars, nextRx, nextTx, accepted, sent, freed, drainCalls, fault>>

\* the closure, running on RxClosureSlice(cur[t].frame), answers the frame: it
\* consumes the TxToken of the pair inside the RxToken's critical section
RxClosureReply(t) ==
    /\ Runnable(t)
    /\ pc[t] = "rx_closure"
    /\ txTokens > 0
    /\ nextTx < MaxTx
    /\ handed' = Append(handed, cur[t].id)
    /\ cur' = [cur EXCEPT ![t] = NoFrame]
    /\ txTokens' = txTokens - 1
    /\ nested' = [nested EXCEPT ![t] = TRUE]
    /\ cs' = CsAcquire(t)
    /\ pc' = [pc EXCEPT ![t] = "tx_consume"]
    /\ UNCHANGED <<queues, embassy, DUMP_PACKETS, wakeVars, isr, mode, ret, rxTokens, nextRx,
                   nextTx, accepted, sent, freed, drainCalls, fault>>

\* consume leaves critical_section::with and returns ret[t]
RxConsumeExit(t) ==
    /\ Runnable(t)
    /\ pc[t] = "rx_exit"
    /\ cs' = CsRelease
    /\ pc' = [pc EXCEPT ![t] = "idle"]
    /\ ret' = [ret EXCEPT ![t] = "none"]
    /\ mode' = [mode EXCEPT ![t] = "sync"]
    /\ UNCHANGED <<queues, embassy, DUMP_PACKETS, wakeVars, isr, nested, cur, tokenVars,
                   nextRx, nextTx, logVars, fault>>

(* ---------------------------------------------------------------------- *)
(* WifiTxToken::consume (smoltcp TxToken and embassy_impl TxToken)         *)
(* ---------------------------------------------------------------------- *)

\* consume(self, .., len, f) enters critical_section::with; the token is used up
TxConsumeEnter(t) ==
    /\ Starts(t)
    /\ txTokens > 0
    /\ nextTx < MaxTx
    /\ txTokens' = txTokens - 1
    /\ \E m \in Modes : mode' = [mode EXCEPT ![t] = m]
    /\ cs' = CsAcquire(t)
    /\ pc' = [pc EXCEPT ![t] = "tx_consume"]
    /\ UNCHANGED <<queues, embassy, DUMP_PACKETS, wakeVars, isr, nested, cur, ret, rxTokens,
                   nextRx, nextTx, logVars, fault>>

\* let mut packet = DataFrame::new(); packet.len = len;
\* f(&mut packet.data[..len])
TxPacket(id, len) ==
    Tagged(id, len,
           [len |-> len,
            data |-> CopyFromSlice(DataFrame_new.data, WriterBytes(id, len))])

\* a smoltcp consume without the is_full test
TxConsumeNeverRefuses(m, txq) == FALSE

\* whether consume refuses before the writer closure runs:
\* smoltcp: if queue.is_full() { Err(Exhausted) }; embassy: the check is
\* commented out
TxConsumeRefuses(m, txq) == m = "sync" /\ is_full(txq, TX_QUEUE_SIZE)

\* a consume that puts the frame on TX only when the writer closure succeeded
TxEnqueueOnOk(txq, n, packet, res) ==
    IF res = "Err" THEN [ok |-> TRUE, q |-> txq] ELSE enqueue(txq, n, packet)

\* let res = f(&mut packet.data[..len]); queue.enqueue(packet); res
\* the enqueue does not look at res
TxAfterClosure(txq, n, packet, res) == enqueue(txq, n, packet)

\* the body of consume for a requested length len among lens and a writer
\* closure that returns one of results
TxConsumeBodyFor(t, lens, results) ==
    /\ Runnable(t)
    /\ pc[t] = "tx_consume"
    /\ \E len \in lens :
         IF TxConsumeRefuses(mode[t], DATA_QUEUE_TX)
           THEN /\ ret' = [ret EXCEPT ![t] = "Exhausted"]
                /\ pc' = [pc EXCEPT ![t] = "tx_exit"]
                /\ UNCHANGED <<DATA_QUEUE_TX, nextTx, fault>>
           ELSE IF ~SliceInRange(len)
             THEN /\ fault' = "consume: range end index out of range"
                  /\ UNCHANGED <<DATA_QUEUE_TX, nextTx, pc, ret>>
             ELSE \E res \in results :
                  LET e == TxAfterClosure(DATA_QUEUE_TX, TX_QUEUE_SIZE,
                                          TxPacket(nextTx + 1, len), res) IN
                  /\ nextTx' = nextTx + 1
                  /\ DATA_QUEUE_TX' = e.q
                  /\ IF mode[t] = "async" /\ ~e.ok
                       THEN /\ fault' = "exausted"
                            /\ UNCHANGED <<pc, ret>>
                       ELSE /\ pc' = [pc EXCEPT ![t] = "tx_exit"]
                            /\ ret' = [ret EXCEPT ![t] = res]
                            /\ fault' = fault
    /\ UNCHANGED <<DATA_QUEUE_RX, cs, embassy, DUMP_PACKETS, wakeVars, isr, mode, nested, cur,
                   tokenVars, nextRx, logVars>>

\* the body of consume for any requested length
TxConsumeBodyWith(t, results) == TxConsumeBodyFor(t, TxLens, results)

\* consume with a writer closure that succeeds, as the writers of the stack do
TxConsumeBody(t) == TxConsumeBodyWith(t, {"Ok"})

\* the critical section of consume ends; send_data_if_needed() comes next,
\* which is the same code in both variants
TxConsumeExit(t) ==
    /\ Runnable(t)
    /\ pc[t] = "tx_exit"
    /\ cs' = CsRelease
    /\ pc' = [pc EXCEPT ![t] = "send_data_if_needed"]
    /\ mode' = [mode EXCEPT ![t] = "sync"]
    /\ UNCHANGED <<queues, embassy, DUMP_PACKETS, wakeVars, isr, nested, cur, ret, tokenVars,
                   nextRx, nextTx, logVars, fault>>

(* ---------------------------------------------------------------------- *)
(* send_data_if_needed                                                     *)
(* ---------------------------------------------------------------------- *)

\* statuses esp_wifi_internal_tx may return (esp_err_t): ESP_OK and a failure
TxStatuses == {0, 12298}

\* the critical section send_data_if_needed is in while it runs its loop,
\* driver calls included:
\* critical_section::with(|cs| { .. while let .. { esp_wifi_internal_tx } })
DrainCs(c) == CsAcquire(c)

\* a drain that puts a packet back on TX when the driver reports a failure
DrainRetries(txq, packet, status) ==
    IF status # 0 THEN <<packet>> \o txq ELSE txq

\* TX after esp_wifi_internal_tx returned status for packet: _res is only
\* traced
DrainAfterTx(txq, packet, status) == txq

\* a task calls the public send_data_if_needed() itself
SendDataIfNeededCall(t) ==
    /\ Starts(t)
    /\ pc' = [pc EXCEPT ![t] = "send_data_if_needed"]
    /\ UNCHANGED <<queues, cs, embassy, DUMP_PACKETS, wakeVars, isr, mode, nested, cur, ret,
                   tokenVars, nextRx, nextTx, logVars, fault>>

\* a drain that goes to its loop without the wake() call
DrainSkipsWake == "drain_loop"

\* a drain that returns without running its loop
DrainSkipsLoop == "drain_exit"

\* the first statement of the drain's critical section: WAKER.wake() where the
\* embassy feature is on, the loop otherwise
DrainFirst == IF embassy THEN "drain_wake" ELSE "drain_loop"

\* send_data_if_needed enters critical_section::with
DrainEnter(t) ==
    /\ Runnable(t)
    /\ pc[t] = "send_data_if_needed"
    /\ cs' = DrainCs(t)
    /\ pc' = [pc EXCEPT ![t] = DrainFirst]
    /\ UNCHANGED <<queues, embassy, DUMP_PACKETS, wakeVars, isr, mode, nested, cur, ret,
                   tokenVars, nextRx, nextTx, logVars, fault>>

\* #[cfg(feature = "embassy")] embassy_impl::WAKER.wake()
DrainWake(t) ==
    /\ Runnable(t)
    /\ pc[t] = "drain_wake"
    /\ notified' = WakeNotified
    /\ WAKER' = 0
    /\ pc' = [pc EXCEPT ![t] = "drain_loop"]
    /\ UNCHANGED <<queues, cs, embassy, DUMP_PACKETS, isr, mode, nested, cur, ret, tokenVars,
                   nextRx, nextTx, logVars, fault>>

\* while let Some(packet) = queue.dequeue()
DrainDequeue(t) ==
    /\ Runnable(t)
    /\ pc[t] \in {"drain_loop", "drain_failed"}
    /\ LET d == dequeue(DATA_QUEUE_TX) IN
         /\ DATA_QUEUE_TX' = d.q
         /\ IF d.some
              THEN IF DumpPanics(slice(d.item.frame))
                     THEN /\ fault' = "dump_packet_info: index out of range"
                          /\ UNCHANGED <<pc, cur>>
                     ELSE /\ cur' = [cur EXCEPT ![t] = d.item]
                          /\ pc' = [pc EXCEPT ![t] = "drain_tx"]
                          /\ fault' = fault
              ELSE /\ cur' = cur
                   /\ pc' = [pc EXCEPT ![t] = "drain_exit"]
                   /\ fault' = fault
    /\ UNCHANGED <<DATA_QUEUE_RX, cs, embassy, DUMP_PACKETS, wakeVars, isr,
                   mode, nested, ret, tokenVars, nextRx, nextTx, logVars>>

\* a drain that tells the driver the size of the array, not packet.len
DriverReadsWhole(frame) == Prefix(frame.data, frame.data.n)

\* what the driver is given: &packet.data and packet.len as u16
DriverReads(frame) == Prefix(frame.data, frame.len % 65536)

\* a drain with `if let` in place of `while let`: one frame per call
DrainNextStops(status) == "drain_exit"

\* a drain that leaves its loop when the driver reports a failure
DrainNextGivesUp(status) == IF status = 0 THEN "drain_loop" ELSE "drain_exit"

\* where the drain goes after esp_wifi_internal_tx returned status: _res is
\* traced and the loop goes to its head, "drain_failed" being the head reached
\* with a non-zero _res
DrainNext(status) == IF status = 0 THEN "drain_loop" ELSE "drain_failed"

\* esp_wifi_internal_tx(WIFI_IF_STA, &packet.data, packet.len as u16), a call
\* into the driver running on DriverReads(cur[t].frame), returns
DrainTx(t) ==
    /\ Runnable(t)
    /\ pc[t] = "drain_tx"
    /\ \E status \in TxStatuses :
         /\ DATA_QUEUE_TX' = DrainAfterTx(DATA_QUEUE_TX, cur[t], status)
         /\ pc' = [pc EXCEPT ![t] = DrainNext(status)]
    /\ sent' = Append(sent, cur[t].id)
    /\ drainCalls' = drainCalls + 1
    /\ cur' = [cur EXCEPT ![t] = NoFrame]
    /\ UNCHANGED <<DATA_QUEUE_RX, cs, embassy, DUMP_PACKETS, wakeVars, isr, mode, nested, ret,
                   tokenVars, nextRx, nextTx, accepted, handed, freed, fault>>

\* send_data_if_needed leaves critical_section::with and returns; consume
\* returns res. A TxToken consumed inside an RxToken closure returns into that
\* closure, which returns
DrainExit(t) ==
    /\ Runnable(t)
    /\ pc[t] = "drain_exit"
    /\ cs' = CsRelease
    /\ pc' = [pc EXCEPT ![t] = IF nested[t] THEN "rx_exit" ELSE "idle"]
    /\ ret' = [ret EXCEPT ![t] = IF nested[t] THEN "Ok" ELSE "none"]
    /\ nested' = [nested EXCEPT ![t] = FALSE]
    /\ drainCalls' = 0
    /\ UNCHANGED <<queues, embassy, DUMP_PACKETS, wakeVars, isr, mode, cur, tokenVars, nextRx,
                   nextTx, accepted, handed, sent, freed, fault>>

(* ---------------------------------------------------------------------- *)
(* The RefCell borrows of the two queues                                   *)
(* ---------------------------------------------------------------------- *)

\* the two cells: DATA_QUEUE_RX and DATA_QUEUE_TX
Cells == {"RX", "TX"}

\* a send_data_if_needed that borrows both queues, as receive(cx) does
BorrowedBothInDrain(l) ==
    IF l \in {"receive", "rx_consume", "rx_closure", "rx_exit"} THEN {"RX"}
    ELSE IF l \in {"tx_consume", "tx_exit", "a_transmit"} THEN {"TX"}
    ELSE IF l \in {"a_receive", "drain_loop", "drain_tx", "drain_failed",
                   "drain_exit"} THEN {"RX", "TX"}
    ELSE {}

\* the cells whose borrow_ref_mut(cs) guard is alive in the function a flow
\* is in when it stands at l: receive() and RxToken consume hold RX, TxToken
\* consume and embassy transmit(cx) hold TX, embassy receive(cx) holds both,
\* send_data_if_needed holds TX from after its wake() call on
Borrowed(l) ==
    IF l \in {"receive", "rx_consume", "rx_closure", "rx_exit"} THEN {"RX"}
    ELSE IF l \in {"tx_consume", "tx_exit", "a_transmit", "drain_loop",
                   "drain_tx", "drain_failed", "drain_exit"} THEN {"TX"}
    ELSE IF l = "a_receive" THEN {"RX", "TX"}
    ELSE {}

\* the cells recv_cb holds: RX, from its first statement to its return
IsrBorrowed == IF isr.pc \in {"body", "free_rx_buffer", "wake", "ret"}
                 THEN {"RX"} ELSE {}

\* the number of borrow guards alive for a cell: those of the functions the
\* flows are in, the RX guard of an RxToken consume whose closure is running
\* a TxToken consume, and recv_cb's. A second borrow_ref_mut of a cell whose
\* guard is alive panics (BorrowMutError)
BorrowCount(cell) ==
    Cardinality({t \in Tasks : cell \in Borrowed(pc[t])})
      + Cardinality({t \in Tasks : nested[t] /\ cell = "RX"})
      + Cardinality({ISR} \cap (IF cell \in IsrBorrowed THEN {ISR} ELSE {}))

(* ---------------------------------------------------------------------- *)
(* The program                                                             *)
(* ---------------------------------------------------------------------- *)

\* one polling task and the receive interrupt
Next ==
    \/ RecvCbEnter
    \/ RecvCbBody
    \/ RecvCbFreeRxBuffer
    \/ RecvCbWake
    \/ RecvCbExit
    \/ \E t \in StackTasks : ReceiveEnter(t)
    \/ \E t \in StackTasks : ReceiveBody(t)
    \/ \E t \in StackTasks : Transmit(t)
    \/ \E t \in StackTasks : AsyncReceiveRegister(t, t)
    \/ \E t \in StackTasks : AsyncReceiveEnter(t)
    \/ \E t \in StackTasks : AsyncReceiveBody(t)
    \/ \E t \in StackTasks : AsyncTransmitRegister(t, t)
    \/ \E t \in StackTasks : AsyncTransmitEnter(t)
    \/ \E t \in StackTasks : AsyncTransmitBody(t)
    \/ \E t \in StackTasks : RxConsumeEnter(t)
    \/ \E t \in StackTasks : RxConsumeDequeue(t)
    \/ \E t \in StackTasks : RxClosurePlain(t)
    \/ \E t \in StackTasks : RxClosureReply(t)
    \/ \E t \in StackTasks : RxConsumeExit(t)
    \/ \E t \in StackTasks : TxConsumeEnter(t)
    \/ \E t \in StackTasks : TxConsumeBody(t)
    \/ \E t \in StackTasks : TxConsumeExit(t)
    \/ \E t \in StackTasks : SendDataIfNeededCall(t)
    \/ \E t \in StackTasks : DrainEnter(t)
    \/ \E t \in StackTasks : DrainWake(t)
    \/ \E t \in StackTasks : DrainDequeue(t)
    \/ \E t \in StackTasks : DrainTx(t)
    \/ \E t \in StackTasks : DrainExit(t)

Spec == Init /\ [][Next]_vars

\* the smoltcp device built with the "dump_packets" feature: the polling task
\* receives and transmits, and the receive interrupt
NextDump ==
    \/ RecvCbEnter
    \/ RecvCbBody
    \/ RecvCbFreeRxBuffer
    \/ RecvCbWake
    \/ RecvCbExit
    \/ \E t \in StackTasks : ReceiveEnter(t)
    \/ \E t \in StackTasks : ReceiveBody(t)
    \/ \E t \in StackTasks : RxConsumeEnter(t)
    \/ \E t \in StackTasks : RxConsumeDequeue(t)
    \/ \E t \in StackTasks : RxClosurePlain(t)
    \/ \E t \in StackTasks : RxConsumeExit(t)
    \/ \E t \in StackTasks : TxConsumeEnter(t)
    \/ \E t \in StackTasks : TxConsumeBody(t)
    \/ \E t \in StackTasks : TxConsumeExit(t)
    \/ \E t \in StackTasks : DrainEnter(t)
    \/ \E t \in StackTasks : DrainWake(t)
    \/ \E t \in StackTasks : DrainDequeue(t)
    \/ \E t \in StackTasks : DrainTx(t)
    \/ \E t \in StackTasks : DrainExit(t)

SpecDump == InitDump /\ [][NextDump]_vars

\* the same with the driver's transmit-done callback
NextDone ==
    \/ Next
    \/ TxDoneCbEnter
    \/ TxDoneCbExit

SpecDone == Init /\ [][NextDone]_vars

\* several flows of control that transmit and preempt one another wherever
\* interrupts are enabled, and the receive interrupt
NextTx ==
    \/ RecvCbEnter
    \/ RecvCbBody
    \/ RecvCbFreeRxBuffer
    \/ RecvCbWake
    \/ RecvCbExit
    \/ \E t \in Tasks : Transmit(t)
    \/ \E t \in Tasks : AsyncTransmitRegister(t, 1)
    \/ \E t \in Tasks : AsyncTransmitEnter(t)
    \/ \E t \in Tasks : AsyncTransmitBody(t)
    \/ \E t \in Tasks : TxConsumeEnter(t)
    \/ \E t \in Tasks : TxConsumeBody(t)
    \/ \E t \in Tasks : TxConsumeExit(t)
    \/ \E t \in Tasks : DrainEnter(t)
    \/ \E t \in Tasks : DrainWake(t)
    \/ \E t \in Tasks : DrainDequeue(t)
    \/ \E t \in Tasks : DrainTx(t)
    \/ \E t \in Tasks : DrainExit(t)

SpecTx == Init /\ [][NextTx]_vars

\* the embassy-net device polled in turn by the cooperative tasks of one
\* executor, each poll coming with the waker of the task that polls, and the
\* receive interrupt
NextWake ==
    \/ RecvCbEnter
    \/ RecvCbBody
    \/ RecvCbFreeRxBuffer
    \/ RecvCbWake
    \/ RecvCbExit
    \/ \E t \in StackTasks, w \in Wakers : AsyncReceiveRegister(t, w)
    \/ \E t \in StackTasks : AsyncReceiveEnter(t)
    \/ \E t \in StackTasks : AsyncReceiveBody(t)
    \/ \E t \in StackTasks, w \in Wakers : AsyncTransmitRegister(t, w)
    \/ \E t \in StackTasks : AsyncTransmitEnter(t)
    \/ \E t \in StackTasks : AsyncTransmitBody(t)
    \/ \E t \in StackTasks : RxConsumeEnter(t)
    \/ \E t \in StackTasks : RxConsumeDequeue(t)
    \/ \E t \in StackTasks : RxClosurePlain(t)
    \/ \E t \in StackTasks : RxConsumeExit(t)
    \/ \E t \in StackTasks : TxConsumeEnter(t)
    \/ \E t \in StackTasks : TxConsumeBody(t)
    \/ \E t \in StackTasks : TxConsumeExit(t)
    \/ \E t \in StackTasks : DrainEnter(t)
    \/ \E t \in StackTasks : DrainWake(t)
    \/ \E t \in StackTasks : DrainDequeue(t)
    \/ \E t \in StackTasks : DrainTx(t)
    \/ \E t \in StackTasks : DrainExit(t)

SpecWake == Init /\ [][NextWake]_vars

\* two cooperative tasks of one executor share the device: the task with
\* waker 1 polls receive(cx) and consumes what it gets, the task with waker 2
\* polls transmit(cx) and consumes what it gets
NextTwoTasks ==
    \/ RecvCbEnter
    \/ RecvCbBody
    \/ RecvCbFreeRxBuffer
    \/ RecvCbWake
    \/ RecvCbExit
    \/ \E t \in StackTasks : AsyncReceiveRegister(t, 1)
    \/ \E t \in StackTasks : AsyncReceiveEnter(t)
    \/ \E t \in StackTasks : AsyncReceiveBody(t)
    \/ \E t \in StackTasks : AsyncTransmitRegister(t, 2)
    \/ \E t \in StackTasks : AsyncTransmitEnter(t)
    \/ \E t \in StackTasks : AsyncTransmitBody(t)
    \/ \E t \in StackTasks : RxConsumeEnter(t)
    \/ \E t \in StackTasks : RxConsumeDequeue(t)
    \/ \E t \in StackTasks : RxClosurePlain(t)
    \/ \E t \in StackTasks : RxConsumeExit(t)
    \/ \E t \in StackTasks : TxConsumeEnter(t)
    \/ \E t \in StackTasks : TxConsumeBody(t)
    \/ \E t \in StackTasks : TxConsumeExit(t)
    \/ \E t \in StackTasks : DrainEnter(t)
    \/ \E t \in StackTasks : DrainWake(t)
    \/ \E t \in StackTasks : DrainDequeue(t)
    \/ \E t \in StackTasks : DrainTx(t)
    \/ \E t \in StackTasks : DrainExit(t)

SpecTwoTasks == Init /\ [][NextTwoTasks]_vars

\* statuses a driver call may return (esp_err_t, an i32): ESP_OK, ESP_FAIL,
\* ESP_ERR_NO_MEM, ESP_ERR_INVALID_ARG, ESP_ERR_WIFI_NOT_INIT,
\* ESP_ERR_WIFI_NOT_STARTED
DriverStatuses == {0, -1, 257, 258, 12289, 12290}

\* the three set-up functions
SetupFns == {"wifi_init", "wifi_start", "wifi_connect"}

\* the driver calls a set-up function makes, in program order; coex tells
\* whether the build has cfg(coex)
SetupSteps(fn, coex) ==
    IF fn = "wifi_init"
      THEN (IF coex THEN <<"coex_init">> ELSE << >>)
             \o <<"esp_wifi_init_internal", "esp_supplicant_init",
                  "esp_wifi_set_mode", "esp_wifi_set_config",
                  "esp_wifi_set_tx_done_cb", "esp_wifi_internal_reg_rxcb">>
      ELSE IF fn = "wifi_start"
        THEN <<"esp_wifi_start", "esp_wifi_set_ps", "esp_wifi_set_country">>
        ELSE <<"esp_wifi_set_config", "esp_wifi_connect">>

\* a set-up function that goes on whatever the driver call returned
SetupNeverReturnsEarly(res) == FALSE

\* if res != 0 { return res; }
SetupReturnsEarly(res) == res # 0

\* a set-up function is called; ret[t] keeps the function, the driver calls
\* made so far with their statuses, and the value to return
SetupCall(t) ==
    /\ Starts(t)
    /\ \E fn \in SetupFns, coex \in BOOLEAN :
         ret' = [ret EXCEPT ![t] = [fn |-> fn, coex |-> coex, calls |-> << >>,
                                    statuses |-> << >>, res |-> 0]]
    /\ pc' = [pc EXCEPT ![t] = "setup"]
    /\ UNCHANGED <<queues, cs, embassy, DUMP_PACKETS, wakeVars, isr, mode,
                   nested, cur, tokenVars, nextRx, nextTx, logVars, fault>>

\* the next driver call of the running set-up function: let res = call(..);
\* if res != 0 { return res; } and, after the last call, the final value
SetupDriverCall(t) ==
    /\ Runnable(t)
    /\ pc[t] = "setup"
    /\ LET steps == SetupSteps(ret[t].fn, ret[t].coex)
           k == Len(ret[t].calls) + 1
       IN \E res \in DriverStatuses :
            /\ ret' = [ret EXCEPT
                         ![t].calls = Append(@, steps[k]),
                         ![t].statuses = Append(@, res),
                         ![t].res = IF SetupReturnsEarly(res) THEN res
                                    ELSE IF k = Len(steps) THEN res ELSE @]
            /\ pc' = [pc EXCEPT
                        ![t] = IF SetupReturnsEarly(res) \/ k = Len(steps)
                                 THEN "setup_ret" ELSE "setup"]
    /\ UNCHANGED <<queues, cs, embassy, DUMP_PACKETS, wakeVars, isr, mode,
                   nested, cur, tokenVars, nextRx, nextTx, logVars, fault>>

\* the set-up function returns ret[t].res to its caller
SetupReturn(t) ==
    /\ Runnable(t)
    /\ pc[t] = "setup_ret"
    /\ ret' = [ret EXCEPT ![t] = "none"]
    /\ pc' = [pc EXCEPT ![t] = "idle"]
    /\ UNCHANGED <<queues, cs, embassy, DUMP_PACKETS, wakeVars, isr, mode,
                   nested, cur, tokenVars, nextRx, nextTx, logVars, fault>>

\* the application sets the driver up: wifi_init, wifi_start, wifi_connect in
\* any order and any number of times
NextSetup ==
    \/ \E t \in StackTasks : SetupCall(t)
    \/ \E t \in StackTasks : SetupDriverCall(t)
    \/ \E t \in StackTasks : SetupReturn(t)

SpecSetup == Init /\ [][NextSetup]_vars

\* byte values tried in short sequences: zero, as in the fill of
\* DataFrame::new, and two others
SampleBytes == {0, 1, 255}

\* the byte sequences DataFrame is tried on: every short one over
\* SampleBytes, and long ones around the capacity
ByteSeqs ==
    UNION {[1..n -> SampleBytes] : n \in 0..MaxSliceLen}
      \cup {DriverBuffer(id, len) :
               id \in 1..2, len \in {FRAME_CAP - 1, FRAME_CAP, FRAME_CAP + 1}}

\* DataFrame::from_bytes(bytes) is called; ret[t] keeps the argument and
\* cur[t] the frame it returns
FromBytesCall(t) ==
    /\ Starts(t)
    /\ \E bytes \in ByteSeqs :
         IF SliceInRange(Len(bytes))
           THEN /\ ret' = [ret EXCEPT ![t] = bytes]
                /\ cur' = [cur EXCEPT
                             ![t] = Tagged(0, Len(bytes), from_bytes(bytes))]
                /\ pc' = [pc EXCEPT ![t] = "from_bytes"]
                /\ fault' = fault
           ELSE /\ fault' = "from_bytes: range end index out of range"
                /\ UNCHANGED <<pc, cur, ret>>
    /\ UNCHANGED <<queues, cs, embassy, DUMP_PACKETS, wakeVars, isr, mode, nested, tokenVars,
                   nextRx, nextTx, logVars>>

\* slice() is called on the frame; ret[t] becomes the slice it returns
SliceCall(t) ==
    /\ Runnable(t)
    /\ pc[t] = "from_bytes"
    /\ ret' = [ret EXCEPT ![t] = slice(cur[t].frame)]
    /\ pc' = [pc EXCEPT ![t] = "slice"]
    /\ UNCHANGED <<queues, cs, embassy, DUMP_PACKETS, wakeVars, isr, mode, nested, cur,
                   tokenVars, nextRx, nextTx, logVars, fault>>

\* the frame and the slice go out of scope
FrameDropped(t) ==
    /\ Runnable(t)
    /\ pc[t] = "slice"
    /\ ret' = [ret EXCEPT ![t] = "none"]
    /\ cur' = [cur EXCEPT ![t] = NoFrame]
    /\ pc' = [pc EXCEPT ![t] = "idle"]
    /\ UNCHANGED <<queues, cs, embassy, DUMP_PACKETS, wakeVars, isr, mode, nested, tokenVars,
                   nextRx, nextTx, logVars, fault>>

\* DataFrame on its own: frames are built from byte sequences and read back
NextFrame ==
    \/ \E t \in StackTasks : FromBytesCall(t)
    \/ \E t \in StackTasks : SliceCall(t)
    \/ \E t \in StackTasks : FrameDropped(t)

SpecFrame == Init /\ [][NextFrame]_vars

\* the two flows of SpecCaps: a task and a flow that preempts it
CapsTasks == {1, 2}

\* the stack transmits and asks for the capabilities, from two flows that
\* preempt one another, and the receive interrupt
NextCaps ==
    \/ RecvCbEnter
    \/ RecvCbBody
    \/ RecvCbFreeRxBuffer
    \/ RecvCbWake
    \/ RecvCbExit
    \/ \E t \in CapsTasks : Transmit(t)
    \/ \E t \in CapsTasks : TxConsumeEnter(t)
    \/ \E t \in CapsTasks : TxConsumeBody(t)
    \/ \E t \in CapsTasks : TxConsumeExit(t)
    \/ \E t \in CapsTasks : DrainEnter(t)
    \/ \E t \in CapsTasks : DrainWake(t)
    \/ \E t \in CapsTasks : DrainDequeue(t)
    \/ \E t \in CapsTasks : DrainTx(t)
    \/ \E t \in CapsTasks : DrainExit(t)
    \/ \E t \in CapsTasks : CapabilitiesCall(t)
    \/ \E t \in CapsTasks : CapabilitiesReturn(t)

SpecCaps == Init /\ [][NextCaps]_vars

\* the executor runs the suspended task again once its waker was woken
Woken(t, w) ==
    /\ Runnable(t)
    /\ pc[t] = "pending"
    /\ w \in notified
    /\ pc' = [pc EXCEPT ![t] = "idle"]
    /\ UNCHANGED <<queues, cs, embassy, DUMP_PACKETS, wakeVars, isr, mode, nested, cur, ret,
                   tokenVars, nextRx, nextTx, logVars, fault>>

\* the task polls receive(cx) when it holds no token of an earlier poll
AwaitReceive(t, w) ==
    /\ rxTokens = 0 /\ txTokens = 0
    /\ AsyncReceiveRegister(t, w)

\* the task lets the TxToken of a pair go unused once the RxToken is consumed
TxTokenDrop(t) ==
    /\ Starts(t)
    /\ rxTokens = 0
    /\ txTokens > 0
    /\ txTokens' = txTokens - 1
    /\ UNCHANGED <<queues, cs, embassy, DUMP_PACKETS, wakeVars, isr, taskVars, rxTokens,
                   nextRx, nextTx, logVars, fault>>

\* what the one consumer task of the embassy build does: poll receive(cx);
\* on Some consume the RxToken, drop the TxToken and poll again; on None
\* suspend until woken, then poll again
AwaitTask(t) ==
    \/ AwaitReceive(t, 1)
    \/ AsyncReceiveEnter(t)
    \/ AsyncReceivePoll(t, "pending")
    \/ Woken(t, 1)
    \/ RxConsumeEnter(t)
    \/ RxConsumeDequeue(t)
    \/ RxClosurePlain(t)
    \/ RxConsumeExit(t)
    \/ TxTokenDrop(t)

\* the steps by which a running recv_cb goes on to its return
RecvCbRuns ==
    \/ RecvCbBody
    \/ RecvCbFreeRxBuffer
    \/ RecvCbWake
    \/ RecvCbExit

NextAwait ==
    \/ RecvCbEnter
    \/ RecvCbBody
    \/ RecvCbFreeRxBuffer
    \/ RecvCbWake
    \/ RecvCbExit
    \/ \E t \in StackTasks : AwaitReceive(t, 1)
    \/ \E t \in StackTasks : AsyncReceiveEnter(t)
    \/ \E t \in StackTasks : AsyncReceivePoll(t, "pending")
    \/ \E t \in StackTasks : Woken(t, 1)
    \/ \E t \in StackTasks : RxConsumeEnter(t)
    \/ \E t \in StackTasks : RxConsumeDequeue(t)
    \/ \E t \in StackTasks : RxClosurePlain(t)
    \/ \E t \in StackTasks : RxConsumeExit(t)
    \/ \E t \in StackTasks : TxTokenDrop(t)

\* the statics of the embassy build
InitAwait == Init /\ embassy

\* the embassy build with its one consumer task. A recv_cb that was entered
\* runs to its return; the task gets the processor again and again between
\* the interrupts
SpecAwait ==
    /\ InitAwait
    /\ [][NextAwait]_vars
    /\ WF_vars(RecvCbRuns)
    /\ \A t \in StackTasks : SF_vars(AwaitTask(t))

\* the steps by which flow t goes on with a transmit-side operation it is in:
\* transmit(cx), TxToken consume and send_data_if_needed
TxTaskRuns(t) ==
    \/ AsyncTransmitEnter(t)
    \/ AsyncTransmitBody(t)
    \/ TxConsumeBody(t)
    \/ TxConsumeExit(t)
    \/ DrainEnter(t)
    \/ DrainWake(t)
    \/ DrainDequeue(t)
    \/ DrainTx(t)
    \/ DrainExit(t)

\* the length of the frames where the lengths do not matter: the shortest
PairLens == {1}

\* the flows that transmit where termination is checked: three of them, each
\* preempting the one below, can put TX_QUEUE_SIZE frames on TX before a drain
DrainTasks == {1, 2, 3}

\* the transmitting flows and the receive interrupt
NextTxRuns ==
    \/ RecvCbEnterFor(PairLens)
    \/ RecvCbBody
    \/ RecvCbFreeRxBuffer
    \/ RecvCbWake
    \/ RecvCbExit
    \/ \E t \in DrainTasks : Transmit(t)
    \/ \E t \in DrainTasks : AsyncTransmitRegister(t, 1)
    \/ \E t \in DrainTasks : AsyncTransmitEnter(t)
    \/ \E t \in DrainTasks : AsyncTransmitBody(t)
    \/ \E t \in DrainTasks : TxConsumeEnter(t)
    \/ \E t \in DrainTasks : TxConsumeBodyFor(t, PairLens, {"Ok"})
    \/ \E t \in DrainTasks : TxConsumeExit(t)
    \/ \E t \in DrainTasks : DrainEnter(t)
    \/ \E t \in DrainTasks : DrainWake(t)
    \/ \E t \in DrainTasks : DrainDequeue(t)
    \/ \E t \in DrainTasks : DrainTx(t)
    \/ \E t \in DrainTasks : DrainExit(t)

\* the transmitting flows on a processor that executes: a recv_cb that was
\* entered runs to its return, and a flow that is in an operation gets the
\* processor again and again between the interrupts and the flows above it
SpecTxRuns ==
    /\ Init
    /\ [][NextTxRuns]_vars
    /\ WF_vars(RecvCbRuns)
    /\ \A t \in DrainTasks : SF_vars(TxTaskRuns(t))

\* a flow lets an RxToken go unused
RxTokenDrop(t) ==
    /\ Starts(t)
    /\ rxTokens > 0
    /\ rxTokens' = rxTokens - 1
    /\ UNCHANGED <<queues, cs, embassy, DUMP_PACKETS, wakeVars, isr, taskVars,
                   txTokens, nextRx, nextTx, logVars, fault>>

\* the flows that poll receive(cx) and transmit with the TxToken of the pair:
\* three of them can leave TX_QUEUE_SIZE frames on TX, the fourth then polls
PairTasks == {1, 2, 3, 4}

\* the embassy device whose TxTokens all come from receive(cx), used by flows
\* that preempt one another, and the receive interrupt
NextPair ==
    \/ RecvCbEnterFor(PairLens)
    \/ RecvCbBody
    \/ RecvCbFreeRxBuffer
    \/ RecvCbWake
    \/ RecvCbExit
    \/ \E t \in PairTasks : AsyncReceiveRegister(t, 1)
    \/ \E t \in PairTasks : AsyncReceiveEnter(t)
    \/ \E t \in PairTasks : AsyncReceiveBody(t)
    \/ \E t \in PairTasks : RxTokenDrop(t)
    \/ \E t \in PairTasks : TxConsumeEnter(t)
    \/ \E t \in PairTasks : TxConsumeBodyFor(t, PairLens, {"Ok"})
    \/ \E t \in PairTasks : TxConsumeExit(t)
    \/ \E t \in PairTasks : DrainEnter(t)
    \/ \E t \in PairTasks : DrainWake(t)
    \/ \E t \in PairTasks : DrainDequeue(t)
    \/ \E t \in PairTasks : DrainTx(t)
    \/ \E t \in PairTasks : DrainExit(t)

SpecPair == InitAwait /\ [][NextPair]_vars

\* flows that transmit with writer closures that may fail, preempting one
\* another wherever interrupts are enabled
NextWriter ==
    \/ \E t \in DrainTasks : Transmit(t)
    \/ \E t \in DrainTasks : TxConsumeEnter(t)
    \/ \E t \in DrainTasks : TxConsumeBodyWith(t, ClosureResults)
    \/ \E t \in DrainTasks : TxConsumeExit(t)
    \/ \E t \in DrainTasks : DrainEnter(t)
    \/ \E t \in DrainTasks : DrainWake(t)
    \/ \E t \in DrainTasks : DrainDequeue(t)
    \/ \E t \in DrainTasks : DrainTx(t)
    \/ \E t \in DrainTasks : DrainExit(t)

SpecWriter == Init /\ [][NextWriter]_vars

\* the steps by which the polling task goes on with an operation it is in
TaskRuns(t) ==
    \/ ReceiveBody(t)
    \/ AsyncReceiveEnter(t)
    \/ AsyncReceiveBody(t)
    \/ RxConsumeDequeue(t)
    \/ RxClosurePlain(t)
    \/ RxClosureReply(t)
    \/ RxConsumeExit(t)
    \/ TxTaskRuns(t)

\* the polling task and the receive interrupt on a processor that executes
SpecRuns ==
    /\ Init
    /\ [][Next]_vars
    /\ WF_vars(RecvCbRuns)
    /\ \A t \in StackTasks : SF_vars(TaskRuns(t))

(* ---------------------------------------------------------------------- *)
(* Properties                                                              *)
(* ---------------------------------------------------------------------- *)

\* the sequence numbers of the frames a queue holds, oldest first
Ids(q) == [i \in 1..Len(q) |-> q[i].id]

\* how often x occurs in the sequence s
Count(s, x) == Cardinality({i \in DOMAIN s : s[i] = x})

\* the flows that stand at the label l
FlowsAt(l) == {t \in Tasks : pc[t] = l}

\* the sequence numbers of the frames that flows standing at l hold
InHand(l) ==
    IF FlowsAt(l) = {} THEN << >> ELSE <<cur[CHOOSE t \in FlowsAt(l) : TRUE].id>>

\* recv_cb has run its if/else and has not returned yet
RecvCbDecided == isr.pc \in {"free_rx_buffer", "wake", "ret"}

\* C1: in every reachable state both the receive queue and the transmit queue
\* hold at most 3 frames, whatever the interleaving of recv_cb, the device
\* calls, the token consumes and the drain.
C1_QueuesHoldAtMostThree ==
    /\ Len(DATA_QUEUE_RX) <= 3
    /\ Len(DATA_QUEUE_TX) <= 3

\* both queues are filled to the brim at once
C1_BothQueuesFull ==
    /\ Len(DATA_QUEUE_RX) = 3
    /\ Len(DATA_QUEUE_TX) = 3

\* C2: the enqueue of recv_cb appends the frame iff RX held fewer than 3
\* frames at the call; recv_cb returns 0 exactly when the frame was appended
\* to RX and a non-zero status exactly when RX held 3 frames at the call.
C2_RecvCbStatusTellsAppend ==
    RecvCbDecided =>
        /\ isr.appended <=> isr.size < 3
        /\ isr.status = 0 <=> isr.appended
        /\ isr.status # 0 <=> isr.size = 3

\* recv_cb is about to return the reject status for the fourth frame, after
\* it returned the accept status for three
C2_RejectAfterThreeAccepts ==
    /\ isr.pc = "ret"
    /\ isr.status = 1
    /\ isr.size = 3
    /\ accepted = <<1, 2, 3>>
    /\ freed = <<1, 2, 3>>

\* what a step does to a saturated recv_cb call and to an RxToken consume
C3_Step ==
    /\ (isr.pc = "body" /\ Len(DATA_QUEUE_RX) = 3) =>
           /\ DATA_QUEUE_RX' = DATA_QUEUE_RX
           /\ accepted' = accepted
           /\ isr'.pc = "ret" /\ isr'.status # 0
    /\ \A t \in Tasks :
         (pc[t] = "rx_consume" /\ DATA_QUEUE_RX # << >>) =>
             /\ cur'[t] = Head(DATA_QUEUE_RX)
             /\ DATA_QUEUE_RX' = Tail(DATA_QUEUE_RX)
             /\ pc'[t] = "rx_closure"
    /\ \A t \in Tasks :
         (pc[t] = "rx_consume" /\ DATA_QUEUE_RX = << >>) =>
             /\ DATA_QUEUE_RX' = << >>
             /\ pc'[t] # "rx_closure"
             /\ handed' = handed

\* C3: drop-newest on saturation. A recv_cb call that finds 3 frames on RX
\* drops the new frame and leaves the 3 queued frames as they were; every
\* RxToken consume after it takes the oldest frame left, so that 3 consumes
\* return the 3 frames in their original order, and a consume that finds RX
\* empty is handed no frame.
C3_DropNewest == [][C3_Step]_vars

\* recv_cb drops a frame on a saturated RX, after the stack took the first
\* frame and a fourth one filled the queue again
C3_DroppedOnSaturation ==
    /\ isr.pc = "ret"
    /\ isr.status # 0
    /\ handed = <<1>>
    /\ Ids(DATA_QUEUE_RX) = <<2, 3, 4>>

\* C4: FIFO on the receive path. The frames handed to the stack are the
\* first frames recv_cb accepted, in the order in which it accepted them.
C4_HandedInAcceptedOrder ==
    /\ Len(handed) <= Len(accepted)
    /\ \A k \in 1..Len(handed) : handed[k] = accepted[k]

\* three frames were handed to the stack while recv_cb calls went on in
\* between the consumes
C4_ThreeHandedInterleaved ==
    /\ Len(handed) = 3
    /\ Len(accepted) = 4
    /\ Len(DATA_QUEUE_RX) = 1

\* C5: no loss under non-saturating load. A recv_cb call that finds RX not
\* full (with a frame of at most 1536 bytes) accepts the frame, and every
\* accepted frame is on RX, in the hands of a consume, or was handed to the
\* stack: the accepted frames are the handed ones, followed by the one being
\* handed, followed by the queued ones.
C5_NoLossBelowSaturation ==
    /\ (RecvCbDecided /\ isr.size < 3) => (isr.appended /\ isr.status = 0)
    /\ accepted = handed \o InHand("rx_closure") \o Ids(DATA_QUEUE_RX)

\* four frames were delivered with RX never full, and all four reached the
\* stack
C5_FourDeliveredFourHanded ==
    /\ nextRx = 4
    /\ accepted = <<1, 2, 3, 4>>
    /\ handed = <<1, 2, 3, 4>>

\* C6: every queued frame is consumed exactly once by the peer side. A frame
\* recv_cb accepted is at one place only: on RX, in the hands of one RxToken
\* consume, or handed to the stack once; a frame a TxToken consume put on TX
\* is on TX, in the hands of the drain, or was passed to esp_wifi_internal_tx
\* once. Nothing is handed or sent that was not queued.
C6_ConsumedExactlyOnce ==
    /\ \A id \in 1..MaxRx :
         /\ Count(accepted, id) <= 1
         /\ Count(handed, id) + Count(InHand("rx_closure"), id)
              + Count(Ids(DATA_QUEUE_RX), id) = Count(accepted, id)
    /\ \A id \in 1..MaxTx :
         Count(sent, id) + Count(InHand("drain_tx"), id)
           + Count(Ids(DATA_QUEUE_TX), id)
             = IF id <= nextTx /\ ~(fault = "exausted" /\ id = nextTx)
                 THEN 1 ELSE 0

\* two frames went through RX to the stack and two through TX to the driver,
\* and the queues are empty again
C6_TwoHandedTwoSent ==
    /\ handed = <<1, 2>>
    /\ sent = <<1, 2>>
    /\ DATA_QUEUE_RX = << >>
    /\ DATA_QUEUE_TX = << >>

\* C7: the critical section is held for the TX dequeue but not for the driver
\* call: while esp_wifi_internal_tx or esp_wifi_internal_free_rx_buffer is
\* executing, no context holds the critical section.
C7_NoCsAcrossDriverCall ==
    /\ \A t \in Tasks : pc[t] = "drain_tx" => CsFree
    /\ isr.pc = "free_rx_buffer" => CsFree

\* flow t stands between the borrow of a queue and the end of the
\* critical_section::with closure the borrow lives in
TaskInQueueOp(t) ==
    pc[t] \in {"receive", "a_receive", "a_transmit", "rx_consume",
               "rx_closure", "rx_exit", "tx_consume", "tx_exit", "drain_loop",
               "drain_failed", "drain_tx", "drain_exit"}

\* recv_cb stands between its borrow of RX and its return
IsrInQueueOp == isr.pc \in {"body", "free_rx_buffer", "wake", "ret"}

\* C8: every access to RX or TX happens while the accessing context holds the
\* critical section: a flow inside a queue operation holds it, recv_cb inside
\* its queue operation holds it, recv_cb never runs while a flow is inside a
\* queue operation, and no two flows are inside a queue operation at once.
C8_QueueAccessUnderCs ==
    /\ \A t \in Tasks : TaskInQueueOp(t) => CsHeldBy(t)
    /\ IsrInQueueOp => CsHeldBy(ISR)
    /\ IsrInQueueOp => \A t \in Tasks : ~TaskInQueueOp(t)
    /\ \A t, u \in Tasks : (TaskInQueueOp(t) /\ TaskInQueueOp(u)) => t = u

\* the polling task is inside receive(), holding the critical section, after
\* recv_cb ran and put a frame on RX
C8_ReceiveAfterRecvCb ==
    /\ pc[1] = "receive"
    /\ CsHeldBy(1)
    /\ isr.pc = "idle"
    /\ Len(DATA_QUEUE_RX) = 2

\* C9: an RxToken consume that finds RX empty is treated as "no frame" and
\* never as a fault, in the smoltcp and in the embassy variant.
C9_EmptyDequeueIsNoFault ==
    \A t \in Tasks :
        (pc[t] = "rx_consume" /\ DATA_QUEUE_RX = << >>) => fault = "none"

\* C10: the slice the closure of an RxToken consume receives is exactly the
\* bytes the driver delivered for that frame, as many as the frame's length.
C10_ClosureGetsDeliveredBytes ==
    \A t \in Tasks :
        pc[t] = "rx_closure" =>
            Expand(RxClosureSlice(cur[t].frame))
                = DriverBuffer(cur[t].id, cur[t].olen)

\* flow t is inside an RxToken consume, past its dequeue
RxConsumePastDequeue(t) == pc[t] \in {"rx_closure", "rx_exit"} \/ nested[t]

\* what a step of an RxToken consume does to RX
C11_Step ==
    \A t \in Tasks :
        /\ (pc[t] = "rx_consume" /\ DATA_QUEUE_RX # << >>) =>
               /\ DATA_QUEUE_RX' = Tail(DATA_QUEUE_RX)
               /\ cur'[t] = Head(DATA_QUEUE_RX)
        /\ RxConsumePastDequeue(t) => DATA_QUEUE_RX' = DATA_QUEUE_RX

\* C11: an RxToken consume that finds RX non-empty removes the oldest frame
\* and no other; whatever the closure returns, an error included, the frame is
\* not put back, and no later step of the consume changes RX.
C11_ConsumeRemovesOldestOnly == [][C11_Step]_vars

\* a consume whose closure failed is about to return: frame 1 is gone from RX
\* and the two frames behind it are still queued
C11_ClosureFailedFrameGone ==
    /\ \E t \in Tasks : pc[t] = "rx_exit" /\ ret[t] = "Err"
    /\ handed = <<1>>
    /\ Ids(DATA_QUEUE_RX) = <<2, 3>>

\* what a step of the smoltcp receive() does
C12_Step ==
    \A t \in Tasks :
        /\ (pc[t] = "idle" /\ pc'[t] = "receive") =>
               /\ queues' = queues
               /\ tokenVars' = tokenVars
        /\ pc[t] = "receive" =>
               /\ queues' = queues
               /\ IF DATA_QUEUE_RX # << >>
                    THEN /\ rxTokens' = rxTokens + 1
                         /\ txTokens' = txTokens + 1
                    ELSE tokenVars' = tokenVars

\* C12: the smoltcp receive() returns an (RxToken, TxToken) pair if and only
\* if RX is non-empty when it looks at it inside its critical section, and it
\* changes neither queue.
C12_ReceiveGivesPairIffRxNonEmpty == [][C12_Step]_vars

\* in a build without embassy, DUMP_PACKETS, receive() has handed out two pairs while RX
\* held one frame
C12_TwoPairsHandedOut ==
    /\ ~embassy
    /\ rxTokens = 2
    /\ txTokens = 2
    /\ Len(DATA_QUEUE_RX) = 1
    /\ pc[1] = "idle"

\* what the last step of the embassy transmit() does
C13_Step ==
    \A t \in Tasks :
        pc[t] = "a_transmit" =>
            /\ queues' = queues
            /\ rxTokens' = rxTokens
            /\ txTokens' = IF Len(DATA_QUEUE_TX) < 3
                             THEN txTokens + 1 ELSE txTokens

\* wherever a flow may call the smoltcp transmit(), the call gives a token
C13_SyncAlwaysGives ==
    \A t \in Tasks :
        (Starts(t) /\ txTokens < MaxTokens) =>
            ENABLED (Transmit(t) /\ txTokens' = txTokens + 1)

\* C13: the smoltcp transmit() returns a TxToken in every state, whatever TX
\* holds; the embassy transmit() returns a TxToken if and only if TX holds
\* fewer than 3 frames, and None otherwise.
C13_TransmitAvailability == [][C13_Step]_vars /\ []C13_SyncAlwaysGives

\* in a build without embassy, DUMP_PACKETS, three flows were preempted between their
\* enqueue and their drain, TX is full, and transmit() gave a token since
C13_TokenGivenOnFullTx ==
    /\ ~embassy
    /\ Len(DATA_QUEUE_TX) = 3
    /\ sent = << >>
    /\ txTokens = 2
    /\ pc[4] = "idle"

\* the frame is the one a TxToken consume makes for the requested length:
\* that logical length, the writer's bytes
IsWrittenFrame(f) ==
    /\ f.frame.len = f.olen
    /\ Expand(slice(f.frame)) = WriterBytes(f.id, f.olen)

\* C14: a TxToken consume for a length L <= 1536 on a TX that is not full
\* puts one frame of logical length L with the writer's bytes on TX; the
\* driver transmit call for a frame is given length L and these bytes; and
\* when the drain that consume runs is through, every frame written so far,
\* the one of this consume included, was passed to the driver exactly once.
C14_WrittenFrameSentOnce ==
    \A t \in Tasks :
        /\ (pc[t] = "tx_exit" /\ ret[t] = "Ok") =>
               /\ DATA_QUEUE_TX # << >>
               /\ DATA_QUEUE_TX[Len(DATA_QUEUE_TX)].id = nextTx
               /\ IsWrittenFrame(DATA_QUEUE_TX[Len(DATA_QUEUE_TX)])
        /\ pc[t] = "drain_tx" =>
               /\ IsWrittenFrame(cur[t])
               /\ Expand(DriverReads(cur[t].frame))
                    = WriterBytes(cur[t].id, cur[t].olen)
        /\ pc[t] = "drain_exit" =>
               /\ DATA_QUEUE_TX = << >>
               /\ \A id \in 1..nextTx : Count(sent, id) = 1

\* a consume is about to return after its drain, with two frames written and
\* both passed to the driver
C14_TwoWrittenTwoSent ==
    /\ \E t \in Tasks : pc[t] = "drain_exit"
    /\ nextTx = 2
    /\ sent = <<1, 2>>

\* the sequence numbers of the transmit frames in the order they leave: those
\* the driver was called for, the one a drain holds, those still queued
TxOrder == sent \o InHand("drain_tx") \o Ids(DATA_QUEUE_TX)

\* C15: send_data_if_needed dequeues every frame pending in TX and issues one
\* driver transmit call per frame in enqueue order, one call at a time; where
\* the drain has left its loop the TX queue is empty and every frame enqueued
\* so far was passed to the driver.
C15_DrainSendsAllInFifoOrder ==
    /\ \A i \in DOMAIN TxOrder : TxOrder[i] = i
    /\ Cardinality(FlowsAt("drain_tx")) <= 1
    /\ \A t \in Tasks : pc[t] = "drain_exit" =>
           /\ DATA_QUEUE_TX = << >>
           /\ Len(sent) = Len(TxOrder)

\* one run of the drain sent three frames: two flows that enqueued a frame
\* were preempted before their own drain, the third flow's drain took all
C15_OneDrainSentThree ==
    /\ pc[1] = "send_data_if_needed"
    /\ pc[2] = "send_data_if_needed"
    /\ pc[3] = "drain_exit"
    /\ sent = <<1, 2, 3>>

\* what C16 asks of one step of flow t
C16_Step(t) ==
    /\ (pc[t] = "drain_tx" /\ pc'[t] # "drain_tx") =>
           /\ pc'[t] \in {"drain_loop", "drain_failed"}
           /\ DATA_QUEUE_TX' = DATA_QUEUE_TX
           /\ sent' = Append(sent, cur[t].id)
    /\ (pc[t] = "drain_failed" /\ pc'[t] # "drain_failed") =>
           IF DATA_QUEUE_TX = << >>
             THEN pc'[t] = "drain_exit" /\ sent' = sent
             ELSE /\ pc'[t] = "drain_tx"
                  /\ cur'[t] = Head(DATA_QUEUE_TX)
                  /\ DATA_QUEUE_TX' = Tail(DATA_QUEUE_TX)

\* what C16 asks of a state: the frame whose driver call failed is gone from
\* TX and from every flow's hands, and no frame has two driver calls
C16_FailedFrameStaysRemoved ==
    /\ \A id \in 1..MaxTx : Count(sent, id) <= 1
    /\ \A t \in Tasks : pc[t] = "drain_failed" =>
           /\ sent # << >>
           /\ Count(Ids(DATA_QUEUE_TX), sent[Len(sent)]) = 0
           /\ Count(InHand("drain_tx"), sent[Len(sent)]) = 0

\* C16: a non-zero status of esp_wifi_internal_tx is never retried: the call's
\* return leaves TX as it was, so the failed frame is not put back, no frame is
\* ever passed to the driver twice, and the drain goes on to dequeue the
\* remaining frames, ending only on an empty TX.
C16_FailedTxNotRetried ==
    [][\A t \in Tasks : C16_Step(t)]_vars /\ []C16_FailedFrameStaysRemoved

\* the driver call for frame 1 failed while frames 2 and 3 are still queued
C16_FailedWithTwoPending ==
    /\ pc[3] = "drain_failed"
    /\ sent = <<1>>
    /\ Ids(DATA_QUEUE_TX) = <<2, 3>>

\* C17: recv_cb releases the driver's receive buffer exactly once for every
\* frame it enqueued, and only when the copy of its bytes is already on RX; a
\* recv_cb that rejected the frame releases nothing.
C17_BufferReleasedOncePerAccept ==
    /\ \A id \in 1..MaxRx : Count(freed, id) <= 1
    /\ Len(freed) <= Len(accepted)
    /\ \A i \in DOMAIN freed : freed[i] = accepted[i]
    /\ isr.pc = "free_rx_buffer" =>
           /\ accepted = Append(freed, isr.id)
           /\ DATA_QUEUE_RX # << >>
           /\ DATA_QUEUE_RX[Len(DATA_QUEUE_RX)] = RecvCbPacket
    /\ (isr.pc \in {"wake", "ret"} /\ isr.status = 0) =>
           /\ freed = accepted
           /\ freed # << >>
           /\ freed[Len(freed)] = isr.id
    /\ (isr.pc = "ret" /\ isr.status # 0) =>
           /\ freed = accepted
           /\ Count(freed, isr.id) = 0
    /\ isr.pc = "idle" => freed = accepted

\* three buffers were released for three enqueued frames, and the recv_cb for
\* a fourth frame rejected it without a release
C17_ThreeReleasedOneRejected ==
    /\ isr.pc = "ret"
    /\ isr.status # 0
    /\ isr.id = 4
    /\ freed = <<1, 2, 3>>
    /\ Ids(DATA_QUEUE_RX) = <<1, 2, 3>>

\* what C18 asks of one step, recv_cb's steps being those that change isr
C18_Step ==
    /\ (isr.pc = "wake" /\ isr' # isr) =>
           /\ isr.appended /\ isr.status = 0
           /\ notified' = notified \cup ({WAKER} \ {0})
    /\ (isr.pc # "wake" /\ isr' # isr) => UNCHANGED <<WAKER, notified>>
    /\ (isr.pc # "wake" /\ isr'.pc = "wake") => isr.pc = "free_rx_buffer"
    /\ (embassy /\ isr.pc = "body" /\ isr' # isr) =>
           isr'.pc = IF DATA_QUEUE_RX' # DATA_QUEUE_RX
                       THEN "free_rx_buffer" ELSE "ret"
    /\ (embassy /\ isr.pc = "free_rx_buffer" /\ isr' # isr) => isr'.pc = "wake"

\* C18: with the wake bridge active, a recv_cb that enqueued its frame calls
\* wake() once, after the enqueue, and the call notifies the waker the cell
\* holds at that moment; no other step of recv_cb, and no step of a recv_cb
\* that rejected its frame, changes the cell or notifies anybody.
C18_OneWakePerEnqueue == [][C18_Step]_vars

\* the first queue event of the run, the enqueue of frame 1, has notified the
\* waker 2 that the last poll registered
C18_EnqueueNotifiedWaker ==
    /\ embassy
    /\ isr.pc = "ret" /\ isr.id = 1 /\ isr.status = 0
    /\ accepted = <<1>>
    /\ nextTx = 0
    /\ notified = {2}

\* what C19 asks of one step of flow t
C19_Step(t) ==
    /\ (embassy /\ pc[t] = "send_data_if_needed" /\ pc'[t] # pc[t]) =>
           pc'[t] = "drain_wake"
    /\ (pc[t] = "drain_wake" /\ pc'[t] # pc[t]) =>
           /\ pc'[t] = "drain_loop"
           /\ notified' = notified \cup ({WAKER} \ {0})
           /\ DATA_QUEUE_TX' = DATA_QUEUE_TX
    /\ (embassy /\ pc'[t] = "drain_loop" /\ pc[t] # "drain_loop") =>
           pc[t] \in {"drain_wake", "drain_tx"}
    /\ (embassy /\ pc'[t] = "drain_failed" /\ pc[t] # "drain_failed") =>
           pc[t] = "drain_tx"
    /\ (embassy /\ pc'[t] = "drain_tx" /\ pc[t] # "drain_tx") =>
           pc[t] \in {"drain_loop", "drain_failed"}

\* a frame leaves TX only in the loop of a drain
C19_RemovalIsByDrain ==
    Len(DATA_QUEUE_TX') < Len(DATA_QUEUE_TX) =>
        \E t \in Tasks : /\ pc[t] \in {"drain_loop", "drain_failed"}
                         /\ pc'[t] = "drain_tx"

\* C19: with the wake bridge active, every run of send_data_if_needed calls
\* wake() before its loop, notifying the waker the cell holds, and frames are
\* removed from TX only inside that loop; so every run that removes a frame
\* has notified the registered waker.
C19_DrainWakesBeforeDequeue ==
    [][C19_RemovalIsByDrain /\ \A t \in Tasks : C19_Step(t)]_vars

\* a poll of transmit() registered waker 2 and its token's consume ran the
\* drain, which sent frame 1; no frame was received, so the notification of
\* waker 2 is the drain's
C19_DrainNotifiedWaker ==
    /\ embassy
    /\ pc[1] = "drain_exit"
    /\ sent = <<1>>
    /\ accepted = << >>
    /\ notified = {2}

\* what C20 asks of one step: a register puts the poll's waker in the cell in
\* place of whatever was there and notifies nobody, and a notification goes to
\* the waker the cell holds and to no other
C20_Step ==
    /\ \A t \in Tasks :
         /\ (pc[t] = "idle" /\ pc'[t] = "a_receive_registered") =>
                WAKER' = 1 /\ notified' \subseteq notified
         /\ (pc[t] = "idle" /\ pc'[t] = "a_transmit_registered") =>
                WAKER' = 2 /\ notified' \subseteq notified
    /\ (notified' \ notified) \subseteq {WAKER}

\* C20: the wake cell holds at most one waker; a register by the asynchronous
\* receive() or transmit() replaces the waker registered before; and a queue
\* event notifies the waker in the cell only, so a waker replaced before the
\* event gets no notification for it.
C20_RegisterReplaces ==
    [][C20_Step]_vars /\ [](WAKER \in Wakers \cup {0})

\* frame 1 was enqueued and woke nobody's later claim; then receive() gave a
\* pair to the task with waker 1, transmit() gave a token to the task with
\* waker 2, replacing waker 1, and nothing was drained; the enqueue of frame 2
\* has now notified waker 2 and not waker 1
C20_OnlySecondWakerNotified ==
    /\ isr.pc = "ret" /\ isr.id = 2 /\ isr.status = 0
    /\ accepted = <<1, 2>>
    /\ handed = << >>
    /\ rxTokens = 1 /\ txTokens = 2
    /\ nextTx = 0
    /\ notified = {2}

\* C21: in the embassy build with a consumer task that polls receive() again
\* whenever it is woken and consumes the RxToken it gets, every frame recv_cb
\* put on RX is eventually handed to the stack, unless the program panics
\* first; the task does not stay suspended while RX holds a frame.
C21_AcceptedEventuallyHanded ==
    \A id \in 1..MaxRx :
        (Count(accepted, id) = 1) ~> (Count(handed, id) = 1 \/ fault # "none")

\* the task found RX empty and suspended after frame 1; recv_cb has put
\* frame 2 on RX and woken it
C21_WokenWithFrameWaiting ==
    /\ pc[1] = "pending"
    /\ isr.pc = "idle"
    /\ handed = <<1>>
    /\ Ids(DATA_QUEUE_RX) = <<2>>
    /\ notified = {1}

\* what C22 asks of a step by which flow t enters or leaves capabilities():
\* nothing but the flow's own position and return value changes
C22_Step(t) ==
    ((pc[t] = "capabilities" /\ pc'[t] = "idle")
       \/ (pc[t] = "idle" /\ pc'[t] = "capabilities")) =>
        UNCHANGED <<queues, cs, embassy, DUMP_PACKETS, wakeVars, isr, mode, nested, cur,
                    tokenVars, nextRx, nextTx, logVars, fault>>

\* what C22 asks of a state: the value a running capabilities() is about to
\* return, and both variants can be called wherever a flow can begin a call
C22_Reports1514And1 ==
    \A t \in Tasks :
        /\ pc[t] = "capabilities" =>
               /\ ret[t].max_transmission_unit = 1514
               /\ ret[t].max_burst_size = 1
        /\ Starts(t) => ENABLED CapabilitiesCall(t)

\* C22: capabilities() reports MTU 1514 and burst size 1 in every reachable
\* state, whatever RX and TX hold, in the smoltcp and in the embassy variant,
\* and changes no state.
C22_CapabilitiesConstant ==
    [][\A t \in Tasks : C22_Step(t)]_vars /\ []C22_Reports1514And1

\* capabilities() is called by the flow that preempted a consume before its
\* drain, with RX full and a frame in TX
C22_CalledWithQueuesOccupied ==
    /\ pc[2] = "capabilities"
    /\ pc[1] = "send_data_if_needed"
    /\ Len(DATA_QUEUE_RX) = 3
    /\ Len(DATA_QUEUE_TX) = 1

\* flow t takes a step of TxToken consume or of the drain
TxSideStep(t) ==
    /\ pc[t] \in {"tx_consume", "tx_exit", "send_data_if_needed", "drain_wake",
                  "drain_loop", "drain_failed", "drain_tx", "drain_exit"}
    /\ pc'[t] # pc[t]

\* what C23 asks of one step
C23_Step ==
    /\ DATA_QUEUE_RX' # DATA_QUEUE_RX =>
           \/ /\ isr.pc = "body"
              /\ DATA_QUEUE_RX' = Append(DATA_QUEUE_RX, RecvCbPacket)
           \/ /\ \E t \in Tasks : pc[t] = "rx_consume" /\ pc'[t] = "rx_closure"
              /\ DATA_QUEUE_RX' = Tail(DATA_QUEUE_RX)
    /\ DATA_QUEUE_TX' # DATA_QUEUE_TX =>
           \/ /\ \E t \in Tasks : pc[t] = "tx_consume" /\ pc'[t] = "tx_exit"
              /\ Len(DATA_QUEUE_TX') = Len(DATA_QUEUE_TX) + 1
              /\ SubSeq(DATA_QUEUE_TX', 1, Len(DATA_QUEUE_TX)) = DATA_QUEUE_TX
           \/ /\ \E t \in Tasks : /\ pc[t] \in {"drain_loop", "drain_failed"}
                                  /\ pc'[t] = "drain_tx"
              /\ DATA_QUEUE_TX' = Tail(DATA_QUEUE_TX)
    /\ (isr' # isr /\ "tx_done" \notin {isr.pc, isr'.pc}) =>
           DATA_QUEUE_TX' = DATA_QUEUE_TX
    /\ (\E t \in Tasks : TxSideStep(t)) => DATA_QUEUE_RX' = DATA_QUEUE_RX
    /\ "tx_done" \in {isr.pc, isr'.pc} =>
           UNCHANGED <<DATA_QUEUE_RX, DATA_QUEUE_TX, WAKER, notified>>

\* C23: RX grows only by recv_cb's enqueue and shrinks only by RxToken
\* consume's dequeue; TX grows only by TxToken consume's enqueue and shrinks
\* only by the drain's dequeue; recv_cb leaves TX as it is, TxToken consume
\* and the drain leave RX as it is, and the transmit-done callback leaves both
\* queues and the wake cell as they are.
C23_OneProducerOneConsumer == [][C23_Step]_vars

\* the transmit-done callback for frame 1 runs while frame 2 waits in TX for
\* its drain, RX holds a frame and a waker is registered
C23_TxDoneWithFramesQueued ==
    /\ isr.pc = "tx_done"
    /\ sent = <<1>>
    /\ Ids(DATA_QUEUE_TX) = <<2>>
    /\ DATA_QUEUE_RX # << >>
    /\ WAKER # 0

\* the frames the queues and the flows hold
FramesHeld ==
    {DATA_QUEUE_RX[i] : i \in DOMAIN DATA_QUEUE_RX}
      \cup {DATA_QUEUE_TX[i] : i \in DOMAIN DATA_QUEUE_TX}
      \cup {cur[t] : t \in Tasks}

\* C24: every frame in RX or TX, and every frame a flow took out of them, has
\* a logical length of at most 1536 in a data array of 1536 bytes, whatever
\* lengths recv_cb and TxToken consume are called with.
C24_LenWithinCapacity ==
    \A f \in FramesHeld :
        /\ f.frame.len <= 1536
        /\ f.frame.data.n = 1536
        /\ Len(f.frame.data.lead) <= f.frame.data.n

\* TxToken consume was called with a length over 1536 while both queues held
\* frames; it panicked and the queues hold what they held
C24_OversizeConsumePanicked ==
    /\ fault = "consume: range end index out of range"
    /\ Len(DATA_QUEUE_TX) = 2
    /\ Len(DATA_QUEUE_RX) = 3

\* C25: for every byte sequence b of length L <= 1536, the slice() of
\* DataFrame::from_bytes(b) has length L and reads b, byte for byte; the frame
\* itself has len L.
C25_FromBytesSliceRoundTrip ==
    [][\A t \in Tasks :
         (pc[t] = "from_bytes" /\ pc'[t] = "slice") =>
             /\ cur[t].frame.len = Len(ret[t])
             /\ ret'[t].n = Len(ret[t])
             /\ Expand(ret'[t]) = ret[t]]_vars

\* the sequence 1, 0, 0, whose last bytes equal the zero fill, came back from
\* slice() with all its three bytes
C25_TrailingZerosKept ==
    /\ pc[1] = "slice"
    /\ cur[1].olen = 3
    /\ Expand(ret[1]) = <<1, 0, 0>>

\* C26: no flow of control enters critical_section::with while it is inside
\* one already: no context stands twice among the holders of the critical
\* section, also while a token's closure runs.
C26_NoRecursiveAcquire ==
    \A i, j \in DOMAIN cs : i # j => cs[i] # cs[j]

\* C27: the packet dump changes nothing: with DUMP_PACKETS on, every frame
\* that is dequeued goes on to the closure or to the driver as it does with
\* DUMP_PACKETS off, and in particular no operation stops in dump_packet_info.
C27_DumpChangesNothing ==
    fault # "dump_packet_info: index out of range"

\* the place of the first non-zero status in the sequence s, or 0
FirstFailure(s) ==
    IF \A i \in DOMAIN s : s[i] = 0 THEN 0
    ELSE CHOOSE i \in DOMAIN s : s[i] # 0 /\ \A j \in 1..(i - 1) : s[j] = 0

\* what C28 asks of a set-up function r that is about to return
C28_Propagates(r) ==
    LET steps == SetupSteps(r.fn, r.coex)
        f == FirstFailure(r.statuses)
    IN /\ r.calls = SubSeq(steps, 1, Len(r.calls))
       /\ Len(r.statuses) = Len(r.calls)
       /\ r.res = 0 <=> (f = 0 /\ r.calls = steps)
       /\ f # 0 => /\ r.res = r.statuses[f]
                   /\ Len(r.calls) = f

\* C28: wifi_init, wifi_start and wifi_connect return 0 only if every driver
\* call of theirs was made and returned 0; otherwise they return the first
\* non-zero status as it is and make no driver call after it. wifi_init
\* registers the transmit-done and the receive callback, in this order, last.
C28_DriverStatusPropagated ==
    \A t \in Tasks :
        /\ pc[t] = "setup_ret" => C28_Propagates(ret[t])
        /\ pc[t] \in {"setup", "setup_ret"} =>
               \A i \in DOMAIN ret[t].calls :
                   ret[t].calls[i] \in {"esp_wifi_set_tx_done_cb",
                                        "esp_wifi_internal_reg_rxcb"} =>
                       \A j \in 1..(i - 1) : ret[t].statuses[j] = 0

\* wifi_init is about to return ESP_ERR_INVALID_ARG, which registering the
\* transmit-done callback gave; the receive callback was not registered
C28_InitStopsBeforeRxCb ==
    /\ pc[1] = "setup_ret"
    /\ ret[1].fn = "wifi_init"
    /\ ret[1].res = 258
    /\ ret[1].calls[Len(ret[1].calls)] = "esp_wifi_set_tx_done_cb"

\* a send_data_if_needed is inside its critical section
DrainRunning ==
    \E t \in Tasks : pc[t] \in {"drain_wake", "drain_loop", "drain_tx",
                                "drain_failed", "drain_exit"}

\* C29, the part that is a matter of single states: a flow that is in an
\* operation and has the processor has a step to take, so has a recv_cb that
\* was entered, and a run of send_data_if_needed has made at most
\* TX_QUEUE_SIZE driver transmit calls
C29_NeverWaits ==
    /\ \A t \in Tasks : pc[t] # "idle" /\ Runnable(t) => ENABLED TaskRuns(t)
    /\ isr.pc # "idle" /\ fault = "none" => ENABLED RecvCbRuns
    /\ drainCalls <= TX_QUEUE_SIZE

\* C29, the part that is a matter of single steps: while a send_data_if_needed
\* is inside its critical section no step puts a frame on TX
C29_NoEnqueueInDrain ==
    DrainRunning => Len(DATA_QUEUE_TX') <= Len(DATA_QUEUE_TX)

TxConsumeInProgress(t) ==
    pc[t] \in {"tx_consume", "tx_exit", "send_data_if_needed", "drain_wake",
               "drain_loop", "drain_tx", "drain_failed", "drain_exit"}

\* C30: with one task driving the transmit side, TX is empty whenever no
\* TxToken consume is in progress and never holds more than one frame; the
\* smoltcp consume never returns Exhausted and the embassy consume never
\* panics with "exausted".
C30_TxHoldsAtMostTheFrameInConsume ==
    /\ (\A t \in StackTasks : ~TxConsumeInProgress(t)) => DATA_QUEUE_TX = << >>
    /\ Len(DATA_QUEUE_TX) <= 1
    /\ \A t \in StackTasks : pc[t] = "tx_exit" => ret[t] \in ClosureResults
    /\ fault # "exausted"

\* the task's fourth consume has put its frame on TX and is about to drain
\* it; the three frames before it went to the driver
C30_FourthFrameAloneOnTx ==
    /\ pc[1] = "send_data_if_needed"
    /\ Ids(DATA_QUEUE_TX) = <<4>>
    /\ sent = <<1, 2, 3>>

\* the RxTokens that still have to find their frame: those handed out and not
\* yet consumed, and those whose consume has not reached its dequeue
RxTokensPending ==
    rxTokens + Cardinality({t \in Tasks : pc[t] = "rx_consume"})

\* RX holds a frame for every pending RxToken
RxTokensCovered == RxTokensPending <= Len(DATA_QUEUE_RX)

\* receive() hands out an RxToken while an earlier one is still pending
C31_FurtherToken == rxTokens' > rxTokens /\ RxTokensPending > 0

RecvCbWakeDue == isr.pc \in {"free_rx_buffer", "wake"}

\* C32: no lost wake-up. receive(cx) registers the waker before it looks at
\* the queues, so while the consumer is suspended after a None its waker is
\* in the cell or was notified, and whenever the queues would now give a pair
\* (a recv_cb has put a frame on RX since the registration) the waker was
\* notified, or the recv_cb is about to notify it.
C32_NoLostWakeUp ==
    \A t \in StackTasks :
        pc[t] = "pending" =>
            /\ WAKER = 1 \/ 1 \in notified
            /\ AsyncReceiveGives(DATA_QUEUE_RX, DATA_QUEUE_TX) =>
                   1 \in notified \/ RecvCbWakeDue

\* the consumer is suspended after a None, a recv_cb has since put a frame on
\* RX and returned, and the consumer's waker is notified
C32_SuspendedAndNotified ==
    /\ pc[1] = "pending"
    /\ isr.pc = "idle"
    /\ Len(DATA_QUEUE_RX) = 1
    /\ WAKER = 0
    /\ notified = {1}

\* the check of receive(cx) by flow t: a pair is handed out exactly when RX
\* is non-empty and TX is not full, and nothing is handed out otherwise
C33_CheckStep(t) ==
    (pc[t] = "a_receive" /\ pc'[t] # "a_receive") =>
        IF DATA_QUEUE_RX # << >> /\ Len(DATA_QUEUE_TX) < TX_QUEUE_SIZE
          THEN rxTokens' = rxTokens + 1 /\ txTokens' = txTokens + 1
          ELSE UNCHANGED tokenVars

\* a TX that is not full stays so as long as no TxToken consume enqueues
C33_RoomKept ==
    (Len(DATA_QUEUE_TX) < TX_QUEUE_SIZE /\ nextTx' = nextTx) =>
        Len(DATA_QUEUE_TX') < TX_QUEUE_SIZE

\* the embassy TxToken consume of flow t on a TX that is not full: its frame
\* goes on TX, unless the requested length is beyond the frame's capacity
C33_ConsumeStep(t) ==
    (pc[t] = "tx_consume" /\ mode[t] = "async" /\ pc'[t] # "tx_consume"
       /\ Len(DATA_QUEUE_TX) < TX_QUEUE_SIZE) =>
        /\ fault' = "none"
        /\ Len(DATA_QUEUE_TX') = Len(DATA_QUEUE_TX) + 1
        /\ ret'[t] \in ClosureResults

\* C33: the embassy receive(cx) returns a pair if and only if, at its check,
\* RX is non-empty and TX is not full; TX then stays not full until the next
\* enqueue, so the TxToken of the pair, consumed before any other enqueue on
\* TX, puts its frame on TX and does not reach the "exausted" panic.
C33_PairMeansRoomOnTx ==
    /\ [][\A t \in Tasks : C33_CheckStep(t) /\ C33_ConsumeStep(t)]_vars
    /\ [][C33_RoomKept]_vars
    /\ [](\A t \in Tasks :
            (pc[t] = "tx_consume" /\ mode[t] = "async"
               /\ Len(DATA_QUEUE_TX) < TX_QUEUE_SIZE) => fault # "exausted")

\* the TxToken of a pair that receive(cx) gave with two frames on TX has been
\* consumed by the embassy consume: its frame is the third on TX
C33_PairTokenFilledTx ==
    /\ pc[3] = "tx_exit"
    /\ mode[3] = "async"
    /\ ret[3] \in ClosureResults
    /\ Len(DATA_QUEUE_TX) = 3
    /\ fault = "none"

\* the smoltcp TxToken consume of flow t on a full TX: no frame is made (the
\* count of frames written stays), TX is as it was, and Exhausted is the value
\* to return; consume then goes on to send_data_if_needed with that value
C34_Step(t) ==
    /\ (pc[t] = "tx_consume" /\ mode[t] = "sync" /\ pc'[t] # "tx_consume"
          /\ Len(DATA_QUEUE_TX) = TX_QUEUE_SIZE) =>
           /\ ret'[t] = "Exhausted"
           /\ pc'[t] = "tx_exit"
           /\ UNCHANGED <<DATA_QUEUE_TX, nextTx, sent, fault>>
    /\ (pc[t] = "tx_exit" /\ pc'[t] # "tx_exit") =>
           /\ pc'[t] = "send_data_if_needed"
           /\ ret'[t] = ret[t]
           /\ UNCHANGED <<DATA_QUEUE_TX, nextTx, sent>>

\* C34: a smoltcp TxToken consumed while TX is full does not run the writer
\* closure, makes and enqueues no frame, and returns Exhausted; the drain runs
\* all the same, and when it has run every frame written so far has gone to
\* the driver, in the order of writing.
C34_ExhaustedStillDrains ==
    /\ [][\A t \in Tasks : C34_Step(t)]_vars
    /\ [](\A t \in Tasks :
            (pc[t] = "drain_exit" /\ ret[t] = "Exhausted") =>
                /\ DATA_QUEUE_TX = << >>
                /\ sent = [i \in 1..nextTx |-> i])

\* the consume that was refused on a full TX has run its drain: the three
\* frames that were queued went to the driver in their order
C34_RefusedConsumeDrainedThree ==
    /\ pc[4] = "drain_exit"
    /\ ret[4] = "Exhausted"
    /\ drainCalls = 3
    /\ sent = <<1, 2, 3>>
    /\ nextTx = 3

\* the smoltcp TxToken consume of flow t on a TX that is not full, for a
\* length within the capacity: the new frame goes to the end of TX and the
\* closure's result is the value to return, whichever it is
C35_BodyStep(t) ==
    (pc[t] = "tx_consume" /\ mode[t] = "sync" /\ pc'[t] # "tx_consume"
       /\ Len(DATA_QUEUE_TX) < TX_QUEUE_SIZE) =>
        /\ ret'[t] \in ClosureResults
        /\ Ids(DATA_QUEUE_TX') = Append(Ids(DATA_QUEUE_TX), nextTx + 1)
        /\ nextTx' = nextTx + 1

\* from the end of the closure to the return of consume the value to return
\* stays what the closure gave
C35_ResultKept(t) ==
    (pc[t] \in {"tx_exit", "send_data_if_needed", "drain_wake", "drain_loop",
                "drain_tx", "drain_failed"}) => ret'[t] = ret[t]

\* C35: a smoltcp TxToken consumed while TX is not full enqueues its frame
\* and hands it to the driver whether the writer closure returned Ok or an
\* error, and returns what the closure returned.
C35_ClosureResultDoesNotGate ==
    /\ [][\A t \in Tasks : C35_BodyStep(t) /\ C35_ResultKept(t)]_vars
    /\ [](\A t \in Tasks :
            (pc[t] = "drain_exit" /\ ret[t] = "Err") =>
                /\ DATA_QUEUE_TX = << >>
                /\ sent = [i \in 1..nextTx |-> i])

\* the writer closure of the second frame returned an error; the frame went
\* to the driver after the first, and consume is about to return the error
C35_FailedWriterFrameSent ==
    /\ pc[1] = "drain_exit"
    /\ ret[1] = "Err"
    /\ sent = <<1, 2>>
    /\ nextTx = 2
    /\ drainCalls = 1

\* the steps of flow t while the closure of its RxToken consume runs a
\* TxToken consume: RX is not touched, and when the nested consume returns TX
\* is empty and the reply, the frame written last, was the last one handed to
\* the driver
C36_NestedStep(t) ==
    /\ nested[t] => DATA_QUEUE_RX' = DATA_QUEUE_RX
    /\ (nested[t] /\ ~nested'[t]) =>
           /\ DATA_QUEUE_TX' = << >>
           /\ sent' # << >>
           /\ sent'[Len(sent')] = nextTx'
           /\ pc'[t] = "rx_exit"

\* the RxToken consume of flow t takes the head off RX at its dequeue and
\* leaves RX alone from then to its return
C36_OneFrameFewer(t) ==
    /\ (pc[t] = "rx_consume" /\ pc'[t] = "rx_closure") =>
           DATA_QUEUE_RX' = Tail(DATA_QUEUE_RX)
    /\ pc[t] \in {"rx_closure", "rx_exit"} => DATA_QUEUE_RX' = DATA_QUEUE_RX

\* C36: reply inside receive. While the closure of an RxToken consume consumes
\* a TxToken, the nested consume and its drain borrow TX only, so no cell has
\* two borrows alive; the reply goes to the driver, and RX ends one frame
\* shorter than it was when the RxToken consume began.
C36_ReplyInsideReceive ==
    /\ [](\A cell \in Cells : BorrowCount(cell) <= 1)
    /\ [][\A t \in StackTasks : C36_NestedStep(t) /\ C36_OneFrameFewer(t)]_vars

\* the reply written inside the closure of an RxToken consume is in the
\* driver's hands: RX, with two frames left, and TX are borrowed once each
C36_ReplyAtDriver ==
    /\ nested[1]
    /\ pc[1] = "drain_tx"
    /\ cur[1].id = nextTx
    /\ Len(DATA_QUEUE_RX) = 2
    /\ BorrowCount("RX") = 1
    /\ BorrowCount("TX") = 1

\* the lengths beyond the capacity of a frame that the calls are tried with
OversizeLens == {n \in TxLens \cup RxLens : n > FRAME_CAP}

\* the body of the TxToken consume flow t is in, called with a length beyond
\* the capacity
C37_OversizeConsume(t) == TxConsumeBodyFor(t, OversizeLens, ClosureResults)

\* recv_cb called with a length beyond the capacity while RX is not full
\* stops in a fault at from_bytes and leaves RX as it was
C37_RecvCbStep ==
    (isr.pc = "body" /\ isr.len > FRAME_CAP /\ isr' # isr
       /\ Len(DATA_QUEUE_RX) < RX_QUEUE_SIZE) =>
        /\ fault' = "recv_cb: range end index out of range"
        /\ UNCHANGED queues

\* no frame that was made with a length beyond the capacity, and no frame
\* shorter than the length it was made with, is in a queue
C37_NoOversizeNoTruncated ==
    \A f \in FramesHeld : f.olen <= FRAME_CAP /\ f.frame.len = f.olen

====
